---- MODULE Spec2Model ----
(***************************************************************************)
(* Ensemble calibration (EMOS / NGR): the CRPS objective functions, the    *)
(* coefficient estimator, the coefficient applier and the controller of    *)
(* improver/ensemble_calibration/ensemble_calibration.py.                  *)
(*                                                                         *)
(* Numbers.  A floating point value is modelled as an extended rational    *)
(* [n |-> numerator, d |-> denominator]: d > 0 is the finite value n/d in  *)
(* lowest terms, 1/0 is +infinity, -1/0 is -infinity and 0/0 is NaN.  The  *)
(* operators F* follow the IEEE rules for the special values; rounding to  *)
(* 32 or 64 bits is not modelled.                                          *)
(*                                                                         *)
(* Strings that the code transforms (lower(), replace(), format(),         *)
(* startswith()) are sequences of one-character strings.                   *)
(***************************************************************************)
EXTENDS Integers, Sequences, FiniteSets, TLC

VARIABLES
    crps,      \* the last call of an objective function: arguments and result
    cubes,     \* the caller's cubes: current forecast, historic forecast, truth
    ec,        \* the EstimateCoefficientsForEnsembleCalibration object
    ac,        \* the ApplyCoefficientsFromEnsembleCalibration object
    plugin,    \* the EnsembleCalibration object
    ret,       \* what the last call returned or raised
    log        \* the last call of process: its arguments and what came of it

vars == <<crps, cubes, ec, ac, plugin, ret, log>>

-----------------------------------------------------------------------------
(* Bounds of the model. *)

\* Data values of the fields are the integers 0..MaxVal, or NaN.
MaxVal == 1

-----------------------------------------------------------------------------
(* Extended rational arithmetic. *)

Abs(i) == IF i < 0 THEN -i ELSE i

Sgn(i) == IF i < 0 THEN -1 ELSE IF i > 0 THEN 1 ELSE 0

RECURSIVE Gcd(_, _)
Gcd(a, b) == IF b = 0 THEN a ELSE Gcd(b, a % b)

NaN == [n |-> 0, d |-> 0]
PInf == [n |-> 1, d |-> 0]
NInf == [n |-> -1, d |-> 0]

\* n/d with d > 0, in lowest terms.
Rat(n, d) ==
    LET g == Gcd(Abs(n), d)
    IN  [n |-> n \div g, d |-> d \div g]

Num(i) == [n |-> i, d |-> 1]

IsNaN(a) == a.d = 0 /\ a.n = 0
IsInf(a) == a.d = 0 /\ a.n # 0
IsFinite(a) == a.d > 0
IsZero(a) == a.d > 0 /\ a.n = 0

FNeg(a) == [n |-> -a.n, d |-> a.d]

FAdd(a, b) ==
    IF IsNaN(a) \/ IsNaN(b) THEN NaN
    ELSE IF IsInf(a) /\ IsInf(b) THEN (IF a.n = b.n THEN a ELSE NaN)
    ELSE IF IsInf(a) THEN a
    ELSE IF IsInf(b) THEN b
    ELSE Rat(a.n * b.d + b.n * a.d, a.d * b.d)

FSub(a, b) == FAdd(a, FNeg(b))

FMul(a, b) ==
    IF IsNaN(a) \/ IsNaN(b) THEN NaN
    ELSE IF IsInf(a) \/ IsInf(b)
         THEN (IF a.n = 0 \/ b.n = 0 THEN NaN
               ELSE [n |-> Sgn(a.n) * Sgn(b.n), d |-> 0])
    ELSE Rat(a.n * b.n, a.d * b.d)

\* a / b; a zero divisor is the positive zero (the divisors of the code are
\* square roots, counts and iterates).
FDiv(a, b) ==
    IF IsNaN(a) \/ IsNaN(b) THEN NaN
    ELSE IF IsInf(a) /\ IsInf(b) THEN NaN
    ELSE IF IsInf(a) THEN [n |-> a.n * (IF b.n < 0 THEN -1 ELSE 1), d |-> 0]
    ELSE IF IsInf(b) THEN Num(0)
    ELSE IF b.n = 0 THEN (IF a.n = 0 THEN NaN ELSE [n |-> Sgn(a.n), d |-> 0])
    ELSE Rat(a.n * b.d * Sgn(b.n), a.d * Abs(b.n))

FSq(a) == FMul(a, a)

\* a < b for values that are not NaN (a comparison with NaN is false).
FLess(a, b) ==
    IF IsNaN(a) \/ IsNaN(b) THEN FALSE
    ELSE IF IsInf(a) THEN a.n < 0 /\ b # a
    ELSE IF IsInf(b) THEN b.n > 0
    ELSE a.n * b.d < b.n * a.d

\* numpy.isnan over a vector: does it hold a NaN
AnyNaN(v) == \E i \in DOMAIN v : IsNaN(v[i])

RECURSIVE SumSeq(_)
SumSeq(v) == IF v = <<>> THEN Num(0) ELSE FAdd(SumSeq(Tail(v)), Head(v))

-----------------------------------------------------------------------------
(* Strings as sequences of characters. *)

UpperCase == <<"A", "B", "C", "D", "E", "F", "G", "H", "I", "J", "K", "L", "M",
               "N", "O", "P", "Q", "R", "S", "T", "U", "V", "W", "X", "Y", "Z">>
LowerCase == <<"a", "b", "c", "d", "e", "f", "g", "h", "i", "j", "k", "l", "m",
               "n", "o", "p", "q", "r", "s", "t", "u", "v", "w", "x", "y", "z">>

LowerChar(c) ==
    IF \E i \in DOMAIN UpperCase : UpperCase[i] = c
    THEN LowerCase[CHOOSE i \in DOMAIN UpperCase : UpperCase[i] = c]
    ELSE c

\* str.lower()
Lower(s) == [i \in DOMAIN s |-> LowerChar(s[i])]

\* str.replace("_", " ")
ReplaceUnderscores(s) == [i \in DOMAIN s |-> IF s[i] = "_" THEN " " ELSE s[i]]

\* str.startswith(p)
StartsWith(s, p) == Len(s) >= Len(p) /\ SubSeq(s, 1, Len(p)) = p

DigitChars == <<"0", "1", "2", "3", "4", "5", "6", "7", "8", "9">>

\* "{}".format(i) of an integer i >= 0
RECURSIVE FormatInt(_)
FormatInt(i) ==
    IF i < 10 THEN <<DigitChars[i + 1]>>
    ELSE FormatInt(i \div 10) \o <<DigitChars[(i % 10) + 1]>>

-----------------------------------------------------------------------------
(* String constants of the code. *)

MeanFlag == <<"m", "e", "a", "n">>
RealizationsFlag == <<"r", "e", "a", "l", "i", "z", "a", "t", "i", "o", "n", "s">>

-----------------------------------------------------------------------------
(* ContinuousRankedProbabilityScoreMinimisers: the objective functions. *)

MAX_ITERATIONS == 200
TOLERATED_PERCENTAGE_CHANGE == 5
BAD_VALUE == 999999

\* What a call gives: a returned value or a raised exception.
Raise(e, m) == [kind |-> "raise", err |-> e, msg |-> m, names |-> <<>>]

\* An exception whose message is formatted with a value.
RaiseNaming(e, m, v) == [kind |-> "raise", err |-> e, msg |-> m, names |-> v]

\* The loss an objective function returns: the sentinel, or the nansum of
\* the per-point terms (kept as the sequence of the terms it adds up).
Sentinel == [kind |-> "loss", sentinel |-> BAD_VALUE, terms |-> <<>>]
NanSumOf(ts) == [kind |-> "loss", sentinel |-> 0, terms |-> ts]

FAbs(a) == [n |-> Abs(a.n), d |-> a.d]

\* x |-> sign(x) * x^2, strictly increasing on the extended reals.  The
\* quotients by sigma = sqrt(s2) are kept as their signed squares, so that
\* they are compared and minimised exactly without a square root.
SignedSq(a) == FMul(a, FAbs(a))

\* SignedSq(a / sqrt(s2)); the square root of a negative number is NaN.
OverSqrt(a, s2) ==
    IF IsNaN(s2) \/ s2.n < 0 THEN NaN ELSE FDiv(SignedSq(a), s2)

\* A slip that leaves the betas of the realizations mode unsquared.
ObjectiveBetaUnsquared(initial_guess, flag) ==
    SubSeq(initial_guess, 3, Len(initial_guess))

\* beta as the objective functions build it (lines 228-234, 287-293):
\* alpha and beta in mean mode, alpha and the squared betas in
\* realizations mode.
ObjectiveBeta(initial_guess, flag) ==
    IF Lower(flag) = MeanFlag
    THEN SubSeq(initial_guess, 3, Len(initial_guess))
    ELSE <<initial_guess[3]>> \o
         [i \in 1..(Len(initial_guess) - 3) |-> FSq(initial_guess[i + 3])]

\* numpy.dot of one row of all_data = column_stack((ones, predictor)) and beta
RECURSIVE DotRow(_, _)
DotRow(row, beta) ==
    IF row = <<>> THEN Num(0)
    ELSE FAdd(DotRow(Tail(row), Tail(beta)), FMul(Head(row), Head(beta)))

\* mu = numpy.dot(all_data, beta), one value per grid point
PredictedMu(forecast_predictor, beta) ==
    [p \in DOMAIN forecast_predictor |->
        DotRow(<<Num(1)>> \o forecast_predictor[p], beta)]

\* sigma^2 = gamma^2 + delta^2 * variance, one value per grid point
SigmaSquared(initial_guess, forecast_var) ==
    [p \in DOMAIN forecast_var |->
        FAdd(FSq(initial_guess[1]), FMul(FSq(initial_guess[2]), forecast_var[p]))]

\* mu / sigma per grid point, as signed squares
MuOverSigma(mu, s2) == [p \in DOMAIN mu |-> OverSqrt(mu[p], s2[p])]

\* numpy.min: NaN if the array holds a NaN, else the least element
NpMin(v) ==
    IF AnyNaN(v) THEN NaN
    ELSE v[CHOOSE i \in DOMAIN v : \A j \in DOMAIN v : ~FLess(v[j], v[i])]

\* One term of the sum of the Gaussian CRPS,
\*   sigma * (xz * (2 * cdf(xz) - 1) + 2 * pdf(xz) - 1 / sqrt_pi):
\* NaN when sigma or xz is NaN, and when sigma is 0 (then xz is infinite or
\* NaN and 0 * inf is NaN); infinite when xz alone is infinite; otherwise a
\* finite value that is a function of sigma and xz.
NormalTerm(mu, s2, truth) ==
    LET xz == OverSqrt(FSub(truth, mu), s2)
    IN  IF IsNaN(xz) \/ IsNaN(s2) \/ s2.n <= 0 THEN [t |-> "nan", s2 |-> NaN, xz |-> NaN, x0 |-> NaN]
        ELSE IF IsInf(xz) \/ IsInf(s2) THEN [t |-> "inf", s2 |-> s2, xz |-> xz, x0 |-> NaN]
        ELSE [t |-> "val", s2 |-> s2, xz |-> xz, x0 |-> NaN]

\* One term of the sum of the truncated Gaussian CRPS; it also depends on
\* x0 = mu / sigma through cdf(x0) and cdf(sqrt(2) * x0).
TruncatedTerm(mu, s2, truth) ==
    LET xz == OverSqrt(FSub(truth, mu), s2)
        x0 == OverSqrt(mu, s2)
    IN  IF IsNaN(xz) \/ IsNaN(x0) \/ IsNaN(s2) \/ s2.n <= 0
        THEN [t |-> "nan", s2 |-> NaN, xz |-> NaN, x0 |-> NaN]
        ELSE IF IsInf(xz) \/ IsInf(s2) THEN [t |-> "inf", s2 |-> s2, xz |-> xz, x0 |-> x0]
        ELSE [t |-> "val", s2 |-> s2, xz |-> xz, x0 |-> x0]

\* A slip that uses numpy.sum, which keeps the NaN terms.
NumpySum(terms) == NanSumOf(terms)

\* numpy.nansum: the terms that are NaN are left out
NanSum(terms) == NanSumOf(SelectSeq(terms, LAMBDA t : t.t # "nan"))

\* The shape and name errors the body raises before it computes anything.
ObjectiveError(initial_guess, forecast_predictor, flag) ==
    IF Lower(flag) \notin {MeanFlag, RealizationsFlag}
    THEN Raise("UnboundLocalError", "beta")
    ELSE IF \E p \in DOMAIN forecast_predictor :
               1 + Len(forecast_predictor[p]) # Len(ObjectiveBeta(initial_guess, flag))
    THEN Raise("ValueError", "shapes not aligned")
    ELSE [kind |-> "none"]

MinIsNotFinite(x0) == ~IsFinite(NpMin(x0))

normal_crps_minimiser(initial_guess, forecast_predictor, truth, forecast_var, flag) ==
    IF ObjectiveError(initial_guess, forecast_predictor, flag).kind = "raise"
    THEN ObjectiveError(initial_guess, forecast_predictor, flag)
    ELSE LET beta == ObjectiveBeta(initial_guess, flag)
             mu == PredictedMu(forecast_predictor, beta)
             s2 == SigmaSquared(initial_guess, forecast_var)
             result == NanSum([p \in DOMAIN truth |-> NormalTerm(mu[p], s2[p], truth[p])])
         IN  IF MinIsNotFinite(MuOverSigma(mu, s2)) THEN Sentinel ELSE result

\* A slip that makes the guard fire at exactly -3 as well.
MinAtOrBelowMinusThree(x0) ==
    FLess(NpMin(x0), SignedSq(Num(-3))) \/ NpMin(x0) = SignedSq(Num(-3))

MinBelowMinusThree(x0) == FLess(NpMin(x0), SignedSq(Num(-3)))

truncated_normal_crps_minimiser(initial_guess, forecast_predictor, truth, forecast_var, flag) ==
    IF ObjectiveError(initial_guess, forecast_predictor, flag).kind = "raise"
    THEN ObjectiveError(initial_guess, forecast_predictor, flag)
    ELSE LET beta == ObjectiveBeta(initial_guess, flag)
             mu == PredictedMu(forecast_predictor, beta)
             s2 == SigmaSquared(initial_guess, forecast_var)
             result == NanSum([p \in DOMAIN truth |-> TruncatedTerm(mu[p], s2[p], truth[p])])
         IN  IF MinIsNotFinite(MuOverSigma(mu, s2)) \/ MinBelowMinusThree(MuOverSigma(mu, s2))
             THEN Sentinel
             ELSE result

-----------------------------------------------------------------------------
(* The input domains of the model. *)

None == [kind |-> "none"]

\* The forecasts of the model have a grid of one row (y) of two points (x).
GridShape == [ylen |-> 1, xlen |-> 2]
GridPoints == 1..(GridShape.ylen * GridShape.xlen)

\* Values of a field at a grid point.
FiniteVals == {Num(i) : i \in 0..MaxVal}
DataVals == FiniteVals \cup {NaN}

\* A field over the grid, flattened.
Fields(S) == [GridPoints -> S]

-----------------------------------------------------------------------------
(* Calls of the objective functions with arbitrary arguments. *)

\* Coefficient vectors [gamma, delta, alpha, beta] that the optimiser may try.
CrpsMeanGuesses ==
    {<<Num(g), Num(dl), Num(a), Num(b)>> :
        g \in {0, 1}, dl \in {0, 1}, a \in {-4, -3, 0, 1}, b \in {-1, 1}}

\* Coefficient vectors [gamma, delta, alpha, beta0, beta1] for two realizations.
CrpsRealizationsGuesses ==
    {<<Num(g), Num(1), Num(a), Num(b0), Num(1)>> :
        g \in {0, 1}, a \in {-4, 0}, b0 \in {-1, 1}}

\* The predictor per grid point: the ensemble mean, or the two realizations.
CrpsMeanPredictors == {[p \in GridPoints |-> <<f[p]>>] : f \in Fields(DataVals)}
CrpsRealizationsPredictors ==
    {[p \in GridPoints |-> <<f[p], g[p]>>] : f \in Fields(DataVals), g \in Fields(FiniteVals)}

CrpsTruths == Fields({Num(MaxVal), NaN})

CrpsArguments ==
    [initial_guess : CrpsMeanGuesses, forecast_predictor : CrpsMeanPredictors,
     truth : CrpsTruths, forecast_var : Fields(DataVals), flag : {MeanFlag}]
    \cup
    [initial_guess : CrpsRealizationsGuesses,
     forecast_predictor : CrpsRealizationsPredictors,
     truth : CrpsTruths, forecast_var : Fields(DataVals), flag : {RealizationsFlag}]

CrpsCall(fn, args, result) ==
    [kind |-> "call", fn |-> fn, args |-> args, result |-> result]

CallNormalCrps ==
    /\ crps.kind = "args"
    /\ crps' = CrpsCall("normal", crps.args,
                        normal_crps_minimiser(
                            crps.args.initial_guess, crps.args.forecast_predictor,
                            crps.args.truth, crps.args.forecast_var, crps.args.flag))
    /\ UNCHANGED <<cubes, ec, ac, plugin, ret, log>>

CallTruncatedCrps ==
    /\ crps.kind = "args"
    /\ crps' = CrpsCall("truncated", crps.args,
                        truncated_normal_crps_minimiser(
                            crps.args.initial_guess, crps.args.forecast_predictor,
                            crps.args.truth, crps.args.forecast_var, crps.args.flag))
    /\ UNCHANGED <<cubes, ec, ac, plugin, ret, log>>

CrpsInit ==
    /\ crps \in [kind : {"args"}, args : CrpsArguments]
    /\ cubes = None
    /\ ec = None
    /\ ac = None
    /\ plugin = None
    /\ ret = None
    /\ log = <<>>

CrpsNext == CallNormalCrps \/ CallTruncatedCrps

SpecCrps == CrpsInit /\ [][CrpsNext]_vars

-----------------------------------------------------------------------------
(* Cubes.  A cube is                                                       *)
(*   [data, realization, time, ylen, xlen, units]:                         *)
(* data[r][p] is the value of the r-th realization at the flattened        *)
(* (time, y, x) point p, realization the points of the realization         *)
(* coordinate, time the points of the time coordinate.                     *)

Cube(data, realization, time, units) ==
    [data |-> data, realization |-> realization, time |-> time,
     ylen |-> GridShape.ylen, xlen |-> GridShape.xlen, units |-> units]

NumRealizations(cube) == Len(cube.realization)
CubePoints(cube) == 1..(Len(cube.time) * cube.ylen * cube.xlen)

\* cube.collapsed("realization", iris.analysis.MEAN).data, flattened
CollapsedMean(cube) ==
    [p \in CubePoints(cube) |->
        FDiv(SumSeq([r \in 1..NumRealizations(cube) |-> cube.data[r][p]]),
             Num(NumRealizations(cube)))]

\* cube.collapsed("realization", iris.analysis.VARIANCE).data, flattened:
\* the sample variance (one delta degree of freedom), NaN for one realization
CollapsedVariance(cube) ==
    LET mean == CollapsedMean(cube)
    IN  [p \in CubePoints(cube) |->
            FDiv(SumSeq([r \in 1..NumRealizations(cube) |->
                            FSq(FSub(cube.data[r][p], mean[p]))]),
                 Num(NumRealizations(cube) - 1))]

\* convert_cube_data_to_2d: one row per point, one column per realization
ConvertCubeDataTo2d(cube) ==
    [p \in CubePoints(cube) |-> [r \in 1..NumRealizations(cube) |-> cube.data[r][p]]]

\* numpy.reshape(flat, (ylen, xlen)): the rows, or no array when the sizes differ
CanReshape(flat, ylen, xlen) == Len(flat) = ylen * xlen
Reshape(flat, ylen, xlen) ==
    [y \in 1..ylen |-> [x \in 1..xlen |-> flat[(y - 1) * xlen + x]]]

\* check_predictor_of_mean_flag: the flag, lower-cased, is "mean" or "realizations"
ValidPredictorOfMeanFlag(flag) == Lower(flag) \in {MeanFlag, RealizationsFlag}

-----------------------------------------------------------------------------
(* Coefficient names. *)

GammaName == <<"g", "a", "m", "m", "a">>
DeltaName == <<"d", "e", "l", "t", "a">>
AlphaName == <<"a", "l", "p", "h", "a">>
BetaName == <<"b", "e", "t", "a">>

\* self.coeff_names as the Estimator's constructor sets it (line 357)
DefaultCoeffNames == <<GammaName, DeltaName, AlphaName, BetaName>>

\* coeff_names[:-1] + ["{}{}".format(coeff_names[-1], int32(r)) for r in realizations]
RealizationCoeffNames(coeff_names, cube) ==
    SubSeq(coeff_names, 1, Len(coeff_names) - 1) \o
    [r \in 1..NumRealizations(cube) |->
        coeff_names[Len(coeff_names)] \o FormatInt(cube.realization[r])]

RECURSIVE SortedSeq(_)
SortedSeq(S) ==
    IF S = {} THEN <<>>
    ELSE LET m == CHOOSE x \in S : \A y \in S : x <= y
         IN  <<m>> \o SortedSeq(S \ {m})

\* dict(zip(names, values)): the keys in insertion order ...
DictKeys(names) ==
    LET first == {i \in DOMAIN names : \A j \in 1..(i - 1) : names[j] # names[i]}
        order == SortedSeq(first)
    IN  [k \in DOMAIN order |-> names[order[k]]]

\* ... whether it has a key, and the value of a key (the last one zipped)
DictHas(names, key) == \E i \in DOMAIN names : names[i] = key
DictGet(names, values, key) ==
    values[CHOOSE i \in DOMAIN names :
              /\ names[i] = key
              /\ \A j \in DOMAIN names : j > i => names[j] # key]

-----------------------------------------------------------------------------
(* ApplyCoefficientsFromEnsembleCalibration *)

ShapeMismatchMsg == "Number of coefficient names ... is not equal to the number of optimised_coeffs_at_date values"

\* The values of the keys that start with "beta", in key order (lines 886-890)
BetaValues(coeff_names, coeffs) ==
    LET keys == SelectSeq(DictKeys(coeff_names), LAMBDA k : StartsWith(k, BetaName))
    IN  [k \in DOMAIN keys |-> DictGet(coeff_names, coeffs, keys[k])]

\* A slip that takes the two coefficients in the wrong order.
ApplyBetaMeanSwapped(coeff_names, coeffs) ==
    <<DictGet(coeff_names, coeffs, BetaName), DictGet(coeff_names, coeffs, AlphaName)>>

\* beta of the mean mode: [alpha, beta] (lines 873-874)
ApplyBetaMean(coeff_names, coeffs) ==
    <<DictGet(coeff_names, coeffs, AlphaName), DictGet(coeff_names, coeffs, BetaName)>>

\* beta of the realizations mode: [alpha] + beta_values**2 (lines 891-892)
ApplyBetaRealizations(coeff_names, coeffs) ==
    LET beta_values == BetaValues(coeff_names, coeffs)
    IN  <<DictGet(coeff_names, coeffs, AlphaName)>> \o
        [k \in DOMAIN beta_values |-> FSq(beta_values[k])]

\* A slip that leaves the variance coefficients unsquared.
PredictedVarUnsquared(gamma, delta, forecast_var) ==
    [p \in DOMAIN forecast_var |-> FAdd(gamma, FMul(delta, forecast_var[p]))]

\* predicted_var = gamma**2 + delta**2 * forecast_vars.data (lines 914-916)
PredictedVar(gamma, delta, forecast_var) ==
    [p \in DOMAIN forecast_var |-> FAdd(FSq(gamma), FMul(FSq(delta), forecast_var[p]))]

ApplyReturn(predicted_mean, predicted_var, coeffs, coeff_names, cube) ==
    [kind |-> "return",
     predictor |-> Reshape(predicted_mean, cube.ylen, cube.xlen),
     variance |-> predicted_var,
     coefficients |-> [k \in 1..(IF Len(coeffs) < Len(coeff_names)
                                 THEN Len(coeffs) ELSE Len(coeff_names)) |->
                          [name |-> coeff_names[k], value |-> coeffs[k]]]]

\* predicted_mean = numpy.dot(all_data, beta) (lines 870-899)
ApplyPredictedMean(cube, coeffs_at_date, coeff_names, flag) ==
    IF Lower(flag) = MeanFlag
    THEN PredictedMu([p \in CubePoints(cube) |-> <<CollapsedMean(cube)[p]>>],
                     ApplyBetaMean(coeff_names, coeffs_at_date))
    ELSE PredictedMu(ConvertCubeDataTo2d(cube),
                     ApplyBetaRealizations(coeff_names, coeffs_at_date))

\* len(optimised_coeffs[date]) != len(coeff_names) (line 854)
ApplyLengthsDiffer(coeffs_at_date, coeff_names) ==
    Len(coeffs_at_date) # Len(coeff_names)

\* _apply_params for the current forecast `cube` (whose realization mean and
\* variance are the forecast predictor and variance), in the order of its
\* statements; each lookup that fails raises.
_apply_params(cube, optimised_coeffs, coeff_names, flag) ==
    LET date == cube.time[1]
        coeffs == optimised_coeffs[date]
    IN  IF date \notin DOMAIN optimised_coeffs THEN Raise("KeyError", "date")
        ELSE IF ApplyLengthsDiffer(coeffs, coeff_names)
        THEN Raise("ValueError", ShapeMismatchMsg)
        ELSE IF ~DictHas(coeff_names, AlphaName) THEN Raise("KeyError", "alpha")
        ELSE IF Lower(flag) = MeanFlag /\ ~DictHas(coeff_names, BetaName)
        THEN Raise("KeyError", "beta")
        ELSE IF /\ Lower(flag) # MeanFlag
                /\ Len(ApplyBetaRealizations(coeff_names, coeffs)) # 1 + NumRealizations(cube)
        THEN Raise("ValueError", "shapes not aligned")
        ELSE IF ~CanReshape(ApplyPredictedMean(cube, coeffs, coeff_names, flag),
                            cube.ylen, cube.xlen)
        THEN Raise("ValueError", "cannot reshape array")
        ELSE IF ~DictHas(coeff_names, GammaName) THEN Raise("KeyError", "gamma")
        ELSE IF ~DictHas(coeff_names, DeltaName) THEN Raise("KeyError", "delta")
        ELSE ApplyReturn(ApplyPredictedMean(cube, coeffs, coeff_names, flag),
                         PredictedVar(DictGet(coeff_names, coeffs, GammaName),
                                      DictGet(coeff_names, coeffs, DeltaName),
                                      CollapsedVariance(cube)),
                         coeffs, coeff_names, cube)

\* self.coeff_names after apply_params_entry (lines 797-803): in realizations
\* mode the list is replaced by the per-realization names.
ApplierCoeffNames(applier) ==
    IF ~ValidPredictorOfMeanFlag(applier.flag) \/ Lower(applier.flag) = MeanFlag
    THEN applier.coeff_names
    ELSE RealizationCoeffNames(applier.coeff_names, applier.current_forecast)

\* What apply_params_entry returns or raises.
apply_params_entry(applier) ==
    IF ~ValidPredictorOfMeanFlag(applier.flag)
    THEN Raise("ValueError", "predictor_of_mean_flag")
    ELSE _apply_params(applier.current_forecast, applier.optimised_coeffs,
                       ApplierCoeffNames(applier), applier.flag)

Applier(current_forecast, optimised_coeffs, coeff_names, flag) ==
    [kind |-> "applier", current_forecast |-> current_forecast,
     optimised_coeffs |-> optimised_coeffs, coeff_names |-> coeff_names,
     flag |-> flag, calls |-> 0]

-----------------------------------------------------------------------------
(* Units.  The model has two compatible units of speed.                    *)

MetresPerSecond == "m s-1"
KilometresPerHour == "km h-1"
Units == {MetresPerSecond, KilometresPerHour}

\* The factor of cube.convert_units: 1 m s-1 = 18/5 km h-1.
UnitFactor(from, to) ==
    IF from = to THEN Num(1)
    ELSE IF from = MetresPerSecond THEN Rat(18, 5)
    ELSE Rat(5, 18)

\* cube.convert_units(units), which changes the cube in place
ConvertUnits(cube, units) ==
    [cube EXCEPT
        !.units = units,
        !.data = [r \in DOMAIN cube.data |->
                     [p \in DOMAIN cube.data[r] |->
                         FMul(cube.data[r][p], UnitFactor(cube.units, units))]]]

\* The truth cube has no realization coordinate.
TruthCube(data, time, units) == [data |-> data, time |-> time, units |-> units]

ConvertTruthUnits(truth, units) ==
    [truth EXCEPT
        !.units = units,
        !.data = [p \in DOMAIN truth.data |->
                     FMul(truth.data[p], UnitFactor(truth.units, units))]]

-----------------------------------------------------------------------------
(* ContinuousRankedProbabilityScoreMinimisers.crps_minimiser_wrapper *)

GaussianName == <<"g", "a", "u", "s", "s", "i", "a", "n">>
TruncatedGaussianName ==
    <<"t", "r", "u", "n", "c", "a", "t", "e", "d", " ", "g", "a", "u", "s", "s", "i", "a", "n">>

\* The keys of self.minimisation_dict (lines 84-86)
MinimisationDictKeys == {GaussianName, TruncatedGaussianName}

\* self.minimisation_dict[distribution] applied to a coefficient vector
MinimisationFunction(distribution, x, forecast_predictor, truth, forecast_var, flag) ==
    IF distribution = GaussianName
    THEN normal_crps_minimiser(x, forecast_predictor, truth, forecast_var, flag)
    ELSE truncated_normal_crps_minimiser(x, forecast_predictor, truth, forecast_var, flag)

\* The message of the KeyError of lines 150-154; it formats the distribution.
DistributionMsg == "Distribution requested {} is not supported in {}"

NotConvergedMsg == "Minimisation did not result in convergence"
PercentageChangeMsg == "The final iteration resulted in a percentage change that is greater than the accepted threshold"

\* numpy.absolute((allvecs[-1] - allvecs[-2]) / allvecs[-2]) * 100 (lines 132-133)
LastIterationPercentageChange(allvecs) ==
    LET last == allvecs[Len(allvecs)]
        prev == allvecs[Len(allvecs) - 1]
    IN  [k \in DOMAIN last |->
            FMul(FAbs(FDiv(FSub(last[k], prev[k]), prev[k])), Num(100))]

\* A slip that warns at the threshold itself.
PercentageChangeAtLeast(allvecs) ==
    \E k \in DOMAIN LastIterationPercentageChange(allvecs) :
        ~FLess(LastIterationPercentageChange(allvecs)[k], Num(TOLERATED_PERCENTAGE_CHANGE))
        /\ ~IsNaN(LastIterationPercentageChange(allvecs)[k])

\* numpy.any(change > TOLERATED_PERCENTAGE_CHANGE) (lines 134-135)
PercentageChangeExceeded(allvecs) ==
    \E k \in DOMAIN LastIterationPercentageChange(allvecs) :
        FLess(Num(TOLERATED_PERCENTAGE_CHANGE), LastIterationPercentageChange(allvecs)[k])

\* What scipy.optimize.minimize(method="Nelder-Mead") gives from the start
\* point x0 is not computed by the model: `opt` stands for it.  The final
\* point has the dimension of x0; allvecs starts with x0.
OptimiserX(x0, opt) == [k \in DOMAIN x0 |-> IF k = 3 THEN FAdd(x0[k], opt.shift) ELSE x0[k]]
OptimiserAllvecs(x0, opt) == <<x0>> \o [k \in 1..opt.iterations |-> OptimiserX(x0, opt)]

\* The predictor data the wrapper hands to the objective function: one row
\* per point, holding the mean or the realizations (lines 159-170).
WrapperPredictorData(forecast_predictor, flag) ==
    IF Lower(flag) = MeanFlag
    THEN [p \in DOMAIN forecast_predictor.data[1] |-> <<forecast_predictor.data[1][p]>>]
    ELSE [p \in DOMAIN forecast_predictor.data[1] |->
             [r \in DOMAIN forecast_predictor.data |-> forecast_predictor.data[r][p]]]

\* A slip that forgets the warning of lines 184-188.
PercentageChangeWarningOnly(x0, opt) ==
    IF PercentageChangeExceeded(OptimiserAllvecs(x0, opt))
    THEN <<PercentageChangeMsg>> ELSE <<>>

WrapperWarnings(x0, opt) ==
    (IF opt.success THEN <<>> ELSE <<NotConvergedMsg>>) \o
    (IF PercentageChangeExceeded(OptimiserAllvecs(x0, opt))
     THEN <<PercentageChangeMsg>> ELSE <<>>)

WrapperReturn(x0, opt) ==
    [kind |-> "return", x |-> OptimiserX(x0, opt), warnings |-> WrapperWarnings(x0, opt)]

\* crps_minimiser_wrapper: the coefficient vector and the warnings, or the
\* exception.  forecast_predictor is a cube-like record with data[r][p].
crps_minimiser_wrapper(initial_guess, forecast_predictor, truth, forecast_var, flag, distribution, opt) ==
    IF distribution \notin MinimisationDictKeys
    THEN RaiseNaming("KeyError", DistributionMsg, distribution)
    ELSE IF ~ValidPredictorOfMeanFlag(flag)
    THEN Raise("ValueError", "predictor_of_mean_flag")
    ELSE IF MinimisationFunction(distribution, initial_guess,
                                 WrapperPredictorData(forecast_predictor, flag),
                                 truth, forecast_var, flag).kind = "raise"
    THEN MinimisationFunction(distribution, initial_guess,
                              WrapperPredictorData(forecast_predictor, flag),
                              truth, forecast_var, flag)
    ELSE IF Len(OptimiserAllvecs(initial_guess, opt)) < 2
    THEN Raise("IndexError", "list index out of range")
    ELSE WrapperReturn(initial_guess, opt)

-----------------------------------------------------------------------------
(* EstimateCoefficientsForEnsembleCalibration *)

Estimator(distribution, desired_units, flag, statsmodels_found, linear_model_flag) ==
    [kind |-> "estimator", distribution |-> distribution,
     desired_units |-> desired_units, flag |-> flag,
     coeff_names |-> DefaultCoeffNames,
     statsmodels_found |-> statsmodels_found,
     ESTIMATE_COEFFICIENTS_FROM_LINEAR_MODEL_FLAG |-> linear_model_flag]

ImportWarningMsg == "The statsmodels can not be imported."

\* A slip that warns in every mode.
ImportWarningInEveryMode(flag, statsmodels_found) ==
    IF ~statsmodels_found THEN <<ImportWarningMsg>> ELSE <<>>

\* The warnings the constructor emits (lines 365-374)
EstimatorWarnings(flag, statsmodels_found) ==
    IF ~statsmodels_found /\ Lower(flag) = RealizationsFlag
    THEN <<ImportWarningMsg>> ELSE <<>>

\* The coefficient names of create_coefficients_cube (lines 412-419)
CoefficientCubeNames(est, current_forecast) ==
    IF Lower(est.flag) = RealizationsFlag
    THEN RealizationCoeffNames(est.coeff_names, current_forecast)
    ELSE est.coeff_names

CoefficientsMsg == "The number of coefficients in {} must equal the number of coefficient names {}."

\* A slip that lets more coefficients than names through.
CoefficientCountFewer(optimised_coeffs, coeff_names) ==
    Len(optimised_coeffs) < Len(coeff_names)

\* The test of line 421
CoefficientCountDiffers(optimised_coeffs, coeff_names) ==
    Len(optimised_coeffs) # Len(coeff_names)

\* A slip that keeps the derived names on the object, as the Applier does.
EstimatorNamesWrittenBack(est, current_forecast) ==
    [est EXCEPT !.coeff_names = CoefficientCubeNames(est, current_forecast)]

\* The Estimator after create_coefficients_cube: lines 412-419 build the
\* names in a local list and assign nothing to self.
EstimatorAfterCoefficientsCube(est, current_forecast) == est

\* create_coefficients_cube: the cube's data and its coefficient_index and
\* coefficient_name coordinates along the data, or the exception
create_coefficients_cube(est, optimised_coeffs, current_forecast) ==
    IF CoefficientCountDiffers(optimised_coeffs,
                               CoefficientCubeNames(est, current_forecast))
    THEN Raise("ValueError", CoefficientsMsg)
    ELSE [kind |-> "return",
          data |-> optimised_coeffs,
          coefficient_index |-> [k \in DOMAIN optimised_coeffs |-> k - 1],
          coefficient_name |-> CoefficientCubeNames(est, current_forecast),
          time |-> current_forecast.time]

\* The default initial guesses (lines 490-496, 540-541)
DefaultGuessMean == <<Num(1), Num(1), Num(0), Num(1)>>

\* A slip that repeats the 1 once too often.
DefaultGuessRealizationsExtra(no_of_realizations) ==
    <<Num(1), Num(1), Num(0)>> \o [k \in 1..(no_of_realizations + 1) |-> Num(1)]

DefaultGuessRealizations(no_of_realizations) ==
    <<Num(1), Num(1), Num(0)>> \o [k \in 1..no_of_realizations |-> Num(1)]

\* A slip that looks at the truth only.
TruthNotNaN(truth_data, predictor_data) ==
    {p \in DOMAIN truth_data : ~IsNaN(truth_data[p])}

\* The points where neither the truth nor any row of the predictor is NaN
\* (lines 500-505, 527-532)
CombinedNotNaN(truth_data, predictor_data) ==
    {p \in DOMAIN truth_data :
        /\ ~IsNaN(truth_data[p])
        /\ \A r \in DOMAIN predictor_data : ~IsNaN(predictor_data[r][p])}

RECURSIVE SumOver(_, _)
SumOver(S, f) ==
    IF S = {} THEN Num(0)
    ELSE LET p == CHOOSE q \in S : TRUE
         IN  FAdd(SumOver(S \ {p}, f), f[p])

\* scipy.stats.linregress(x, y) over the points of S: <<gradient, intercept>>,
\* gradient = ssxym / ssxm and intercept = ymean - gradient * xmean; with
\* identical x values the quotient is 0/0.
LinRegress(x, y, S) ==
    LET n == Num(Cardinality(S))
        xmean == FDiv(SumOver(S, x), n)
        ymean == FDiv(SumOver(S, y), n)
        ssxm == SumOver(S, [p \in DOMAIN x |-> FSq(FSub(x[p], xmean))])
        ssxym == SumOver(S, [p \in DOMAIN x |->
                                FMul(FSub(x[p], xmean), FSub(y[p], ymean))])
        gradient == FDiv(ssxym, ssxm)
    IN  <<gradient, FSub(ymean, FMul(gradient, xmean))>>

\* A slip that leaves delta out of the regression guess.
RegressionGuessMeanShort(truth_data, predictor_data) ==
    LET S == CombinedNotNaN(truth_data, predictor_data)
    IN  IF S = {} THEN <<Num(1), NaN, NaN>>
        ELSE <<Num(1),
               LinRegress(predictor_data[1], truth_data, S)[2],
               LinRegress(predictor_data[1], truth_data, S)[1]>>

\* The regression initial guess of mean mode (lines 498-514)
RegressionGuessMean(truth_data, predictor_data) ==
    LET S == CombinedNotNaN(truth_data, predictor_data)
    IN  IF S = {} THEN <<Num(1), Num(1), NaN, NaN>>
        ELSE <<Num(1), Num(1),
               LinRegress(predictor_data[1], truth_data, S)[2],
               LinRegress(predictor_data[1], truth_data, S)[1]>>

\* statsmodels.api.add_constant(data) with has_constant="skip": the column of
\* ones is not added when a column of the data is already a non-zero
\* constant.  The number of columns of the result.
AddConstantColumns(predictor_data, S) ==
    IF \E r \in DOMAIN predictor_data :
          /\ \A p \in S : ~IsZero(predictor_data[r][p])
          /\ \A p, q \in S : predictor_data[r][p] = predictor_data[r][q]
    THEN Len(predictor_data)
    ELSE Len(predictor_data) + 1

\* The regression initial guess of realizations mode (lines 516-538) with
\* statsmodels: [1, 1, params[0]] + params[1:], where params has one entry
\* per column of the design matrix.  The fitted values are not computed by
\* the model: every parameter is ols.
RegressionGuessRealizations(truth_data, predictor_data, ols) ==
    LET S == CombinedNotNaN(truth_data, predictor_data)
        params == [k \in 1..AddConstantColumns(predictor_data, S) |-> ols]
    IN  <<Num(1), Num(1), params[1]>> \o SubSeq(params, 2, Len(params))

\* compute_initial_guess: the guess, or the exception
compute_initial_guess(est, truth_data, predictor_data, flag, linear_model_flag, no_of_realizations, ols) ==
    IF Lower(flag) = MeanFlag /\ ~linear_model_flag
    THEN [kind |-> "return", x |-> DefaultGuessMean]
    ELSE IF Lower(flag) = RealizationsFlag /\ ~linear_model_flag
    THEN [kind |-> "return", x |-> DefaultGuessRealizations(no_of_realizations)]
    ELSE IF Lower(flag) = MeanFlag
    THEN [kind |-> "return", x |-> RegressionGuessMean(truth_data, predictor_data)]
    ELSE IF Lower(flag) = RealizationsFlag
    THEN (IF est.statsmodels_found
          THEN (IF CombinedNotNaN(truth_data, predictor_data) = {}
                THEN Raise("ValueError", "zero-size array")
                ELSE [kind |-> "return",
                      x |-> RegressionGuessRealizations(truth_data, predictor_data, ols)])
          ELSE [kind |-> "return", x |-> DefaultGuessRealizations(no_of_realizations)])
    ELSE Raise("UnboundLocalError", "initial_guess")

\* forecast_predictor of lines 606-613: the realization mean as a cube of one
\* row, or the historic forecast itself
ForecastPredictor(historic_forecast, flag) ==
    IF Lower(flag) = MeanFlag
    THEN [historic_forecast EXCEPT !.data = <<CollapsedMean(historic_forecast)>>,
                                   !.realization = <<>>]
    ELSE historic_forecast

\* The dates estimate_coefficients_for_ngr estimates coefficients for: the
\* first point of the current forecast's time coordinate (lines 597-600).
EstimatedDates(current_forecast) == {current_forecast.time[1]}

\* A slip that leaves the truth in the units it came in.
CubesAfterEstimateHistoricOnly(est, cs) ==
    IF ~ValidPredictorOfMeanFlag(est.flag) THEN cs
    ELSE [cs EXCEPT !.historic = ConvertUnits(cs.historic, est.desired_units)]

\* A slip that converts to the units of the current forecast.
CubesAfterEstimateCurrentUnits(est, cs) ==
    IF ~ValidPredictorOfMeanFlag(est.flag) THEN cs
    ELSE [cs EXCEPT !.historic = ConvertUnits(cs.historic, cs.current.units),
                    !.truth = ConvertTruthUnits(cs.truth, cs.current.units)]

\* The caller's cubes after the unit conversions of lines 603-604.
CubesAfterEstimate(est, cs) ==
    IF ~ValidPredictorOfMeanFlag(est.flag) THEN cs
    ELSE [cs EXCEPT !.historic = ConvertUnits(cs.historic, est.desired_units),
                    !.truth = ConvertTruthUnits(cs.truth, est.desired_units)]

EstimateReturn(dates, x, warnings) ==
    [kind |-> "return", value |-> [d \in dates |-> x], warnings |-> warnings]

\* estimate_coefficients_for_ngr: the dictionary of coefficients, or the
\* exception.  orc stands for what the regression and the optimiser compute.
estimate_coefficients_for_ngr(est, cs, orc) ==
    IF ~ValidPredictorOfMeanFlag(est.flag)
    THEN Raise("ValueError", "predictor_of_mean_flag")
    ELSE
    LET historic_forecast == CubesAfterEstimate(est, cs).historic
        truth == CubesAfterEstimate(est, cs).truth
        forecast_predictor == ForecastPredictor(historic_forecast, est.flag)
        forecast_var == CollapsedVariance(historic_forecast)
        guess == compute_initial_guess(
                     est, truth.data, forecast_predictor.data, est.flag,
                     est.ESTIMATE_COEFFICIENTS_FROM_LINEAR_MODEL_FLAG,
                     NumRealizations(historic_forecast), orc.ols)
        minimised == crps_minimiser_wrapper(
                         guess.x, forecast_predictor, truth.data, forecast_var,
                         est.flag, Lower(est.distribution), orc.opt)
    IN  IF guess.kind = "raise" THEN guess
        ELSE IF AnyNaN(guess.x)
        THEN EstimateReturn(EstimatedDates(cs.current), guess.x, <<>>)
        ELSE IF minimised.kind = "raise" THEN minimised
        ELSE EstimateReturn(EstimatedDates(cs.current), minimised.x, minimised.warnings)

-----------------------------------------------------------------------------
(* EnsembleCalibration *)

EmosName ==
    <<"e", "n", "s", "e", "m", "b", "l", "e", " ", "m", "o", "d", "e", "l",
      " ", "o", "u", "t", "p", "u", "t", " ", "s", "t", "a", "t", "i", "s",
      "t", "i", "c", "s">>
NgrName ==
    <<"n", "o", "n", "h", "o", "m", "o", "g", "e", "n", "e", "o", "u", "s",
      " ", "g", "a", "u", "s", "s", "i", "a", "n", " ", "r", "e", "g", "r",
      "e", "s", "s", "i", "o", "n">>

\* The supported calibration methods (lines 1017-1018)
SupportedMethods == {EmosName, NgrName}

\* The distributions the controller lets through (line 1020)
ControllerDistributions == {GaussianName, TruncatedGaussianName}

\* A slip that lower-cases only.
LowerOnly(calibration_method) == Lower(calibration_method)

\* format_calibration_method (lines 1009-1011)
format_calibration_method(calibration_method) ==
    ReplaceUnderscores(Lower(calibration_method))

OtherMethodsMsg == "Other calibration methods are not available. {} is not available"

\* The EnsembleCalibration object; env is what the process finds around it:
\* whether statsmodels can be imported and the class attribute
\* ESTIMATE_COEFFICIENTS_FROM_LINEAR_MODEL_FLAG of the Estimator.
EnsembleCalibration(calibration_method, distribution, desired_units, flag, env) ==
    [kind |-> "plugin", calibration_method |-> calibration_method,
     distribution |-> distribution, desired_units |-> desired_units,
     flag |-> flag, env |-> env]

\* Does process construct the Estimator, and the Estimator it constructs
ProcessEstimates(pl) ==
    /\ ValidPredictorOfMeanFlag(pl.flag)
    /\ format_calibration_method(pl.calibration_method) \in SupportedMethods
    /\ format_calibration_method(pl.distribution) \in ControllerDistributions

ProcessEstimator(pl) ==
    Estimator(pl.distribution, pl.desired_units, pl.flag, pl.env[1], pl.env[2])

\* The Applier process constructs from the estimated coefficients
\* (lines 1032-1033)
ProcessApplier(pl, cs, estimated) ==
    Applier(CubesAfterEstimate(ProcessEstimator(pl), cs).current,
            estimated.value, ProcessEstimator(pl).coeff_names, pl.flag)

\* The tuple process returns (lines 1034-1044), with the warnings emitted
ProcessReturn(applied, warnings) ==
    IF applied.kind = "raise" THEN applied
    ELSE [kind |-> "return", predictor |-> applied.predictor,
          variance |-> applied.variance, warnings |-> warnings]

\* Lines 1032-1044, after the estimation
ProcessApply(pl, cs, estimated) ==
    IF estimated.kind = "raise" THEN estimated
    ELSE ProcessReturn(apply_params_entry(ProcessApplier(pl, cs, estimated)),
                       estimated.warnings)

\* process: the calibrated predictor and variance, or the exception
process(pl, cs, orc) ==
    IF ~ValidPredictorOfMeanFlag(pl.flag)
    THEN Raise("ValueError", "predictor_of_mean_flag")
    ELSE IF format_calibration_method(pl.calibration_method) \notin SupportedMethods
    THEN RaiseNaming("ValueError", OtherMethodsMsg,
                     format_calibration_method(pl.calibration_method))
    ELSE IF format_calibration_method(pl.distribution) \notin ControllerDistributions
    THEN Raise("UnboundLocalError", "optimised_coeffs")
    ELSE ProcessApply(pl, cs,
             estimate_coefficients_for_ngr(ProcessEstimator(pl), cs, orc))

\* The caller's cubes after process
CubesAfterProcess(pl, cs) ==
    IF ProcessEstimates(pl) THEN CubesAfterEstimate(ProcessEstimator(pl), cs) ELSE cs

-----------------------------------------------------------------------------
(* Calls of apply_params_entry on an Applier object. *)

\* apply_params_entry is called at most MaxCalls times on one object.
MaxCalls == 2

\* The realization coordinates of the model's forecasts: one or two members.
RealizationCoords == {<<0>>, <<0, 1>>}

\* The forecasts given to the Applier: one validity time, finite data.
ApplyForecasts ==
    UNION {{Cube(data, rc, <<1>>, "K") : data \in [DOMAIN rc -> Fields(FiniteVals)]} :
           rc \in RealizationCoords}

\* Coefficient vectors [gamma, delta, alpha, beta, ...] of three to five
\* coefficients; all the betas of a vector are equal.
ApplyVectors ==
    {<<Num(g), Num(dl), Num(a)>> \o [k \in 1..nb |-> Num(b)] :
        g \in {-1, 0, 1}, dl \in {-1, 0, 1}, a \in {0, 1}, b \in {-1, 1}, nb \in 0..2}

ApplyInit ==
    /\ \E cf \in ApplyForecasts, vec \in ApplyVectors, flag \in {MeanFlag, RealizationsFlag} :
           ac = Applier(cf, [d \in {cf.time[1]} |-> vec], DefaultCoeffNames, flag)
    /\ crps = None
    /\ cubes = None
    /\ ec = None
    /\ plugin = None
    /\ ret = None
    /\ log = <<>>

ApplyParamsEntry ==
    /\ ac.kind = "applier"
    /\ ac.calls < MaxCalls
    /\ ret' = apply_params_entry(ac)
    /\ ac' = [ac EXCEPT !.coeff_names = ApplierCoeffNames(ac), !.calls = @ + 1]
    /\ UNCHANGED <<crps, cubes, ec, plugin, log>>

ApplyNext == ApplyParamsEntry

SpecApply == ApplyInit /\ [][ApplyNext]_vars

-----------------------------------------------------------------------------
(* Calls of estimate_coefficients_for_ngr on an Estimator object. *)

TruncatedGaussianCapitals ==
    <<"T", "r", "u", "n", "c", "a", "t", "e", "d", " ", "G", "a", "u", "s", "s", "i", "a", "n">>
FakeName == <<"f", "a", "k", "e">>
MedianFlag == <<"m", "e", "d", "i", "a", "n">>

\* Distribution names given to the Estimator: two supported ones and one not.
EstDistributions == {GaussianName, TruncatedGaussianCapitals, FakeName}

\* predictor_of_mean_flag values: the two modes and an invalid one.
EstFlags == {MeanFlag, RealizationsFlag, MedianFlag}

\* Historic forecasts: two realizations over the grid at one earlier time;
\* the first holds any data values, the second 0 or 1.
HistoricForecasts ==
    {Cube(<<f, g>>, <<0, 1>>, <<0>>, u) :
        f \in Fields(DataVals), g \in Fields({Num(0), Num(1)}), u \in Units}

\* Truths: finite everywhere, NaN at one point, NaN everywhere, in metres
\* per second; and finite everywhere in kilometres per hour.
Truths ==
    {TruthCube(t, <<0>>, MetresPerSecond) :
        t \in {[p \in GridPoints |-> IF p <= k THEN NaN ELSE Num(MaxVal)] :
                  k \in 0..Cardinality(GridPoints)}}
    \cup {TruthCube([p \in GridPoints |-> Num(MaxVal)], <<0>>, KilometresPerHour)}

\* Current forecasts: two realizations, one or two validity times.
CurrentForecasts ==
    {Cube([r \in 1..2 |-> [p \in 1..(Len(time) * GridShape.ylen * GridShape.xlen) |-> Num(r)]],
          <<0, 1>>, time, MetresPerSecond) : time \in {<<1>>, <<1, 2>>}}

\* What the regression backend and the optimiser return is not computed:
\* every fitted parameter is ols, and the optimiser moves alpha by shift in
\* a number of iterations and reports success or not.
OptimiserOutcomes == [shift : {Num(0), Num(1)}, success : BOOLEAN, iterations : {1}]
Oracles == [ols : {Num(1)}, opt : OptimiserOutcomes]

\* statsmodels found or not, and ESTIMATE_COEFFICIENTS_FROM_LINEAR_MODEL_FLAG
\* (without regression the backend is not used).
EstEnvironments == {<<TRUE, TRUE>>, <<FALSE, TRUE>>, <<TRUE, FALSE>>}

CallerCubes(current, historic, truth) ==
    [kind |-> "cubes", current |-> current, historic |-> historic, truth |-> truth]

\* What is kept of a call: the object, the cubes and the optimiser it met,
\* what came back, the Estimator and the Applier it constructed.
LogEntry(pl, cs, orc, outcome, estimator, applier) ==
    [plugin |-> pl, cubes |-> cs, orc |-> orc, ret |-> outcome,
     ec |-> estimator, ac |-> applier]

EstInit ==
    /\ ec \in {Estimator(dist, MetresPerSecond, flag, env[1], env[2]) :
                 dist \in EstDistributions, flag \in EstFlags, env \in EstEnvironments}
    /\ cubes \in {CallerCubes(c, h, t) :
                    c \in CurrentForecasts, h \in HistoricForecasts, t \in Truths}
    /\ crps = None
    /\ ac = None
    /\ plugin = None
    /\ ret = None
    /\ log = <<>>

EstimateCoefficientsForNgr ==
    /\ ec.kind = "estimator"
    /\ ret = None
    /\ \E orc \in Oracles :
         /\ ret' = estimate_coefficients_for_ngr(ec, cubes, orc)
         /\ log' = <<LogEntry(None, cubes, orc, ret', ec, None)>>
    /\ cubes' = CubesAfterEstimate(ec, cubes)
    /\ UNCHANGED <<crps, ec, ac, plugin>>

EstNext == EstimateCoefficientsForNgr

SpecEst == EstInit /\ [][EstNext]_vars

-----------------------------------------------------------------------------
(* The constructor of the Estimator followed by one call of
   compute_initial_guess or create_coefficients_cube. *)

\* Data of compute_initial_guess over three points
GuessPoints == 1..3
GuessFields == [GuessPoints -> DataVals]

\* Arguments of a compute_initial_guess call: the truth; one row of predictor
\* data for the mean (or an invalid flag), two rows for realizations.
GuessArguments ==
    {[kind |-> "guess_args", flag |-> flag, env |-> env, truth_data |-> t,
      predictor_data |-> <<x>>] :
        flag \in {MeanFlag, MedianFlag}, env \in BOOLEAN \X BOOLEAN,
        t \in GuessFields, x \in GuessFields}
    \cup
    {[kind |-> "guess_args", flag |-> RealizationsFlag, env |-> env,
      truth_data |-> t,
      predictor_data |-> <<x, [p \in GuessPoints |-> Num(1)]>>] :
        env \in BOOLEAN \X BOOLEAN, t \in GuessFields,
        x \in {[p \in GuessPoints |-> v] : v \in DataVals}}

\* Arguments of a create_coefficients_cube call: three to six coefficients
\* and a current forecast of one or two realizations.
CoefficientArguments ==
    {[kind |-> "coefficient_args", flag |-> flag, env |-> <<TRUE, TRUE>>,
      optimised_coeffs |-> [k \in 1..n |-> Num(k)],
      current_forecast |-> Cube(<<>>, realization, <<1>>, MetresPerSecond)] :
        flag \in EstFlags, n \in 3..6, realization \in {<<0>>, <<0, 1>>, <<2, 1>>}}

\* Arguments of calls of both methods on one object: the cubes of
\* estimate_coefficients_for_ngr, and four or five coefficients and the
\* current forecast for create_coefficients_cube.
MethodArguments ==
    {[kind |-> "method_args", flag |-> flag, env |-> <<TRUE, FALSE>>,
      optimised_coeffs |-> [k \in 1..n |-> Num(k)],
      current_forecast |-> c,
      cubes |-> CallerCubes(c, Cube(<<<<Num(0), Num(MaxVal)>>, <<Num(1), Num(0)>>>>,
                                    <<0, 1>>, <<0>>, u),
                            TruthCube(<<Num(MaxVal), Num(0)>>, <<0>>, MetresPerSecond))] :
        flag \in {MeanFlag, RealizationsFlag}, n \in 4..5,
        c \in CurrentForecasts, u \in Units}

HelpInit ==
    /\ cubes \in GuessArguments \cup CoefficientArguments \cup MethodArguments
    /\ ec = None
    /\ crps = None
    /\ ac = None
    /\ plugin = None
    /\ ret = None
    /\ log = <<>>

\* EstimateCoefficientsForEnsembleCalibration(distribution, desired_units, flag)
Construct ==
    /\ cubes.kind \in {"guess_args", "coefficient_args", "method_args"}
    /\ ec = None
    /\ ec' = Estimator(GaussianName, MetresPerSecond, cubes.flag,
                       cubes.env[1], cubes.env[2])
    /\ ret' = [kind |-> "constructed",
               warnings |-> EstimatorWarnings(cubes.flag, cubes.env[1])]
    /\ UNCHANGED <<crps, cubes, ac, plugin, log>>

ComputeInitialGuess ==
    /\ cubes.kind = "guess_args"
    /\ ec.kind = "estimator"
    /\ ret.kind = "constructed"
    /\ \E orc \in Oracles :
         ret' = compute_initial_guess(
                    ec, cubes.truth_data, cubes.predictor_data, ec.flag,
                    ec.ESTIMATE_COEFFICIENTS_FROM_LINEAR_MODEL_FLAG,
                    Len(cubes.predictor_data), orc.ols)
    /\ UNCHANGED <<crps, cubes, ec, ac, plugin, log>>

\* create_coefficients_cube, at most MaxCalls method calls on the object
CreateCoefficientsCube ==
    /\ cubes.kind \in {"coefficient_args", "method_args"}
    /\ ec.kind = "estimator"
    /\ Len(log) < MaxCalls
    /\ ret' = create_coefficients_cube(ec, cubes.optimised_coeffs,
                                       cubes.current_forecast)
    /\ ec' = EstimatorAfterCoefficientsCube(ec, cubes.current_forecast)
    /\ log' = Append(log, "create_coefficients_cube")
    /\ UNCHANGED <<crps, cubes, ac, plugin>>

\* estimate_coefficients_for_ngr on the same object; it assigns nothing to
\* self (lines 587-643).
EstimateOnObject ==
    /\ cubes.kind = "method_args"
    /\ ec.kind = "estimator"
    /\ Len(log) < MaxCalls
    /\ \E orc \in Oracles :
         ret' = estimate_coefficients_for_ngr(ec, cubes.cubes, orc)
    /\ cubes' = [cubes EXCEPT !.cubes = CubesAfterEstimate(ec, cubes.cubes)]
    /\ log' = Append(log, "estimate_coefficients_for_ngr")
    /\ UNCHANGED <<crps, ec, ac, plugin>>

HelpNext ==
    Construct \/ ComputeInitialGuess \/ CreateCoefficientsCube \/ EstimateOnObject

SpecHelp == HelpInit /\ [][HelpNext]_vars

-----------------------------------------------------------------------------
(* Calls of EnsembleCalibration(...).process. *)

EmosCapitalsUnderscores ==
    <<"E", "n", "s", "e", "m", "b", "l", "e", "_", "M", "o", "d", "e", "l",
      "_", "O", "u", "t", "p", "u", "t", "_", "S", "t", "a", "t", "i", "s",
      "t", "i", "c", "s">>
EmosHyphens ==
    <<"e", "n", "s", "e", "m", "b", "l", "e", "-", "m", "o", "d", "e", "l",
      "-", "o", "u", "t", "p", "u", "t", "-", "s", "t", "a", "t", "i", "s",
      "t", "i", "c", "s">>
LogisticRegressionName ==
    <<"l", "o", "g", "i", "s", "t", "i", "c", " ", "r", "e", "g", "r", "e",
      "s", "s", "i", "o", "n">>
TruncatedGaussianUnderscore ==
    <<"t", "r", "u", "n", "c", "a", "t", "e", "d", "_", "g", "a", "u", "s",
      "s", "i", "a", "n">>

\* Calibration-method names: an alias with capitals and underscores, the
\* other alias as it is, an unsupported method and a misspelt alias.
ProcMethods == {EmosCapitalsUnderscores, NgrName, LogisticRegressionName, EmosHyphens}

ProcDistributions == {GaussianName, TruncatedGaussianUnderscore, FakeName}

ProcEnvironments == {<<TRUE, TRUE>>, <<TRUE, FALSE>>}

\* The cubes of the caller: a historic forecast and a current forecast (of
\* one or two times) in either unit, a truth that is finite or NaN
\* everywhere.
ProcCubes ==
    {CallerCubes([c EXCEPT !.units = u], Cube(<<h, <<Num(1), Num(0)>>>>, <<0, 1>>, <<0>>, u),
                 TruthCube(t, <<0>>, MetresPerSecond)) :
        c \in CurrentForecasts, h \in {<<Num(0), Num(MaxVal)>>}, u \in Units,
        t \in {<<Num(MaxVal), Num(0)>>, <<NaN, NaN>>}}

ProcInit ==
    /\ plugin \in {EnsembleCalibration(EmosName, dist, MetresPerSecond, flag, env) :
                     dist \in ProcDistributions, flag \in EstFlags,
                     env \in ProcEnvironments}
    /\ cubes \in ProcCubes
    /\ crps = None
    /\ ec = None
    /\ ac = None
    /\ ret = None
    /\ log = <<>>

\* The Applier object after its apply_params_entry call
AppliedApplier(applier) ==
    [applier EXCEPT !.coeff_names = ApplierCoeffNames(applier), !.calls = 1]

\* The objects process leaves behind
ProcessedEstimator(pl) ==
    IF ProcessEstimates(pl) THEN ProcessEstimator(pl) ELSE None

ProcessedApplier(pl, cs, estimated) ==
    IF estimated.kind = "return"
    THEN AppliedApplier(ProcessApplier(pl, cs, estimated))
    ELSE None

ProcessEstimated(pl, cs, orc) ==
    IF ProcessEstimates(pl)
    THEN estimate_coefficients_for_ngr(ProcessEstimator(pl), cs, orc)
    ELSE None

\* A new EnsembleCalibration object for a calibration method (with the
\* distribution, units and flag of this run) and its process call.
ProcessCall(pl, orc, outcome, estimator, applier) ==
    /\ plugin' = pl
    /\ ret' = outcome
    /\ cubes' = CubesAfterProcess(pl, cubes)
    /\ ec' = estimator
    /\ ac' = applier
    /\ log' = <<LogEntry(pl, cubes, orc, outcome, estimator, applier)>>

Process ==
    /\ plugin.kind = "plugin"
    /\ \E method \in ProcMethods, orc \in Oracles :
         ProcessCall([plugin EXCEPT !.calibration_method = method], orc,
             process([plugin EXCEPT !.calibration_method = method], cubes, orc),
             ProcessedEstimator([plugin EXCEPT !.calibration_method = method]),
             ProcessedApplier([plugin EXCEPT !.calibration_method = method], cubes,
                 ProcessEstimated([plugin EXCEPT !.calibration_method = method],
                                  cubes, orc)))
    /\ UNCHANGED crps

ProcNext == Process

SpecProc == ProcInit /\ [][ProcNext]_vars

-----------------------------------------------------------------------------
(* The minimisation inside crps_minimiser_wrapper, one Nelder-Mead         *)
(* iteration at a time.  What an iteration computes is not modelled: it    *)
(* moves alpha of the best vertex to any of WrapAlphas.  Of allvecs the    *)
(* state keeps the length and the last two vectors, which is all that      *)
(* lines 132-133 read.                                                     *)

\* A slip that leaves out options["maxiter"]: scipy then allows 200 iterations
\* per coefficient.
DefaultMaxiter == 4 * MAX_ITERATIONS

\* options["maxiter"] (line 183)
MaxiterOption == MAX_ITERATIONS

\* The values alpha takes during the iterations
WrapAlphas == {Num(0), Num(20), Num(21)}

\* Initial guesses: [1, 1, 20, 1], and one with every coefficient 0.001
TinyGuess == [k \in 1..4 |-> Rat(1, 1000)]
WrapGuesses == {<<Num(1), Num(1), Num(20), Num(1)>>, TinyGuess}

\* The predictor (ensemble mean) of a call: finite, or NaN at a point
WrapPredictors ==
    {[data |-> <<[p \in GridPoints |-> IF p = 1 THEN v ELSE Num(1)]>>] : v \in {Num(0), NaN}}

WrapCalls ==
    [kind : {"wrapper_args"}, initial_guess : WrapGuesses,
     forecast_predictor : WrapPredictors, distribution : {GaussianName, FakeName},
     flag : {MeanFlag, MedianFlag}]

\* The exception the call raises before an iteration is made, if any: the
\* KeyError of lines 148-154, the ValueError of line 157, or what the
\* objective function raises when minimize first evaluates it
WrapperPrecheck(call) ==
    IF call.distribution \notin MinimisationDictKeys
    THEN RaiseNaming("KeyError", DistributionMsg, call.distribution)
    ELSE IF ~ValidPredictorOfMeanFlag(call.flag)
    THEN Raise("ValueError", "predictor_of_mean_flag")
    ELSE ObjectiveError(call.initial_guess,
                        WrapperPredictorData(call.forecast_predictor, call.flag),
                        call.flag)

\* scipy's initial simplex moves a non-zero coefficient by 5% and a zero one
\* by 0.00025; the loop can leave on its first tolerance test, before any
\* iteration, only if every move is within xatol = 0.0001.
InitialSimplexWithinXatol(x0) ==
    \A k \in DOMAIN x0 :
        /\ ~IsZero(x0[k])
        /\ ~FLess(Rat(1, 10000), FMul(FAbs(x0[k]), Rat(1, 20)))

\* The state of minimize when its loop starts: iterations = 1 and
\* allvecs = [sim[0]]; nvecs is len(allvecs), last is allvecs[-1] and, once
\* nvecs is 2 or more, prev is allvecs[-2]
Minimizing(call) ==
    [kind |-> "minimizing", call |-> call, iterations |-> 1, nvecs |-> 1,
     prev |-> call.initial_guess, last |-> call.initial_guess, status |-> "running"]

\* How the loop can end in state st: on the iteration limit, on the
\* tolerance test or on the limit of function evaluations
ExitStatuses(st) ==
    (IF st.iterations >= MaxiterOption THEN {"maxiter"} ELSE {})
    \cup (IF /\ st.iterations < MaxiterOption
             /\ (st.iterations > 1 \/ InitialSimplexWithinXatol(st.call.initial_guess))
          THEN {"converged"} ELSE {})
    \cup (IF st.iterations > 1 THEN {"maxfev"} ELSE {})

\* Lines 184-190 for the result of minimize: success is set only when the
\* loop ended on its tolerance test
WrapperOutcome(st, status) ==
    IF st.nvecs < 2
    THEN Raise("IndexError", "list index out of range")
    ELSE [kind |-> "return", x |-> st.last,
          warnings |->
              (IF status = "converged" THEN <<>> ELSE <<NotConvergedMsg>>) \o
              (IF PercentageChangeExceeded(<<st.prev, st.last>>)
               THEN <<PercentageChangeMsg>> ELSE <<>>)]

WrapInit ==
    /\ crps \in WrapCalls
    /\ cubes = None
    /\ ec = None
    /\ ac = None
    /\ plugin = None
    /\ ret = None
    /\ log = <<>>

\* crps_minimiser_wrapper up to the first tolerance test of minimize
CallMinimize ==
    /\ crps.kind = "wrapper_args"
    /\ IF WrapperPrecheck(crps).kind = "raise"
       THEN /\ ret' = WrapperPrecheck(crps)
            /\ crps' = [crps EXCEPT !.kind = "raised"]
       ELSE /\ ret' = ret
            /\ crps' = Minimizing(crps)
    /\ UNCHANGED <<cubes, ec, ac, plugin, log>>

\* One pass of the loop: iterations += 1 and allvecs.append(sim[0])
NelderMeadIteration ==
    /\ crps.kind = "minimizing"
    /\ crps.iterations < MaxiterOption
    /\ \E a \in WrapAlphas :
         crps' = [crps EXCEPT !.iterations = @ + 1, !.nvecs = @ + 1,
                              !.prev = crps.last, !.last = [crps.last EXCEPT ![3] = a]]
    /\ UNCHANGED <<cubes, ec, ac, plugin, ret, log>>

\* The loop ends, minimize returns, and the wrapper warns and returns
MinimizeReturns ==
    /\ crps.kind = "minimizing"
    /\ \E status \in ExitStatuses(crps) :
         /\ ret' = WrapperOutcome(crps, status)
         /\ crps' = [crps EXCEPT !.kind = "returned", !.status = status]
    /\ UNCHANGED <<cubes, ec, ac, plugin, log>>

WrapNext == CallMinimize \/ NelderMeadIteration \/ MinimizeReturns

SpecWrap == WrapInit /\ [][WrapNext]_vars

\* The call runs in one thread with nothing to wait for: a step that can
\* be taken is taken.
SpecWrapFair == SpecWrap /\ WF_vars(WrapNext)

-----------------------------------------------------------------------------
(* CLAIMS *)

\* mu / sigma at each grid point (as signed squares) for the arguments of
\* the recorded objective-function call.
CrpsCallMuOverSigma ==
    MuOverSigma(
        PredictedMu(crps.args.forecast_predictor,
                    ObjectiveBeta(crps.args.initial_guess, crps.args.flag)),
        SigmaSquared(crps.args.initial_guess, crps.args.forecast_var))

CrpsCallMu ==
    PredictedMu(crps.args.forecast_predictor,
                ObjectiveBeta(crps.args.initial_guess, crps.args.flag))

CrpsCallSigmaSquared == SigmaSquared(crps.args.initial_guess, crps.args.forecast_var)

\* C9 (as claimed): in both objective functions, if mu/sigma is non-finite
\* (NaN, +infinity or -infinity) at any single grid point, whatever the
\* other grid points hold, the function returns the sentinel loss 999999.
C9_NonFiniteAnywhereGivesSentinel ==
    (/\ crps.kind = "call"
     /\ \E p \in GridPoints : ~IsFinite(CrpsCallMuOverSigma[p]))
    => (crps.result.kind = "loss" /\ crps.result.sentinel = 999999)

\* C10: the truncated Gaussian objective returns the sentinel whenever some
\* grid point has mu/sigma strictly below -3; with every mu/sigma finite and
\* the minimum exactly -3 it returns the computed sum; the Gaussian objective
\* returns the computed sum whenever every mu/sigma is finite, however
\* negative.
C10_MinusThreeRule ==
    crps.kind = "call" =>
        LET x0 == CrpsCallMuOverSigma
            allFinite == \A p \in GridPoints : IsFinite(x0[p])
            below == \E p \in GridPoints : FLess(x0[p], Num(-9))
            atMinusThree ==
                /\ \E p \in GridPoints : x0[p] = Num(-9)
                /\ ~below
        IN  /\ (crps.fn = "truncated" /\ below) => crps.result = Sentinel
            /\ (crps.fn = "truncated" /\ allFinite /\ atMinusThree) =>
                   crps.result =
                       NanSum([p \in GridPoints |->
                                  TruncatedTerm(CrpsCallMu[p], CrpsCallSigmaSquared[p],
                                                crps.args.truth[p])])
            /\ (crps.fn = "normal" /\ allFinite) =>
                   crps.result =
                       NanSum([p \in GridPoints |->
                                  NormalTerm(CrpsCallMu[p], CrpsCallSigmaSquared[p],
                                             crps.args.truth[p])])

\* C10 witness: a truncated call whose mu/sigma is finite everywhere and
\* below -3 somewhere returned the sentinel.
C10_Witness ==
    /\ crps.kind = "call"
    /\ crps.fn = "truncated"
    /\ \A p \in GridPoints : IsFinite(CrpsCallMuOverSigma[p])
    /\ \E p \in GridPoints : FLess(CrpsCallMuOverSigma[p], Num(-9))
    /\ crps.result = Sentinel

\* The coefficient vector the Applier looks up for its forecast.
ApplierVector == ac.optimised_coeffs[ac.current_forecast.time[1]]

\* gamma = 0, delta = 1, alpha = 0 and every beta = 1, with one beta in mean
\* mode and one beta per realization in realizations mode.
IdentityVector ==
    ApplierVector =
        <<Num(0), Num(1), Num(0)>> \o
        [k \in 1..(IF Lower(ac.flag) = MeanFlag THEN 1
                   ELSE NumRealizations(ac.current_forecast)) |-> Num(1)]

RawMean == CollapsedMean(ac.current_forecast)
RawVariance == CollapsedVariance(ac.current_forecast)
RawMeanGrid == Reshape(RawMean, ac.current_forecast.ylen, ac.current_forecast.xlen)

StatedNameCount ==
    IF Lower(ac.flag) = MeanFlag THEN 4 ELSE 3 + NumRealizations(ac.current_forecast)

ShapeMismatchRaised ==
    ret.kind = "raise" /\ ret.err = "ValueError" /\ ret.msg = ShapeMismatchMsg

\* C5 (as claimed): the Applier raises the shape-mismatch error exactly when
\* the coefficient vector of the forecast's date has a length different from
\* the number of coefficient names (4 in mean mode, 3 + R in realizations
\* mode); with equal lengths it does not raise it.
C5_ShapeMismatchExactly ==
    (ac.kind = "applier" /\ ac.calls > 0)
    => (ShapeMismatchRaised <=> Len(ApplierVector) # StatedNameCount)

\* C8: every grid point of the calibrated variance equals
\* gamma^2 + delta^2 * raw_variance and is non-negative, for gamma and delta
\* of any sign, wherever the raw variance is a non-negative number.
C8_VarianceNonNegative ==
    (ac.kind = "applier" /\ ret.kind = "return")
    => \A p \in GridPoints :
          (IsFinite(RawVariance[p]) /\ RawVariance[p].n >= 0)
          => /\ ret.variance[p] =
                    FAdd(FMul(ApplierVector[1], ApplierVector[1]),
                         FMul(FMul(ApplierVector[2], ApplierVector[2]), RawVariance[p]))
             /\ IsFinite(ret.variance[p])
             /\ ret.variance[p].n >= 0

\* C8 witness: negative gamma and delta applied to a forecast with a
\* positive raw variance.
C8_Witness ==
    /\ ac.kind = "applier" /\ ret.kind = "return"
    /\ ApplierVector[1].n < 0 /\ ApplierVector[2].n < 0
    /\ \E p \in GridPoints : IsFinite(RawVariance[p]) /\ RawVariance[p].n > 0

-----------------------------------------------------------------------------
(* Claims about estimate_coefficients_for_ngr, under SpecEst *)

EstimatorCalled == ec.kind = "estimator" /\ ret # None

CurrentForecastDates == {cubes.current.time[i] : i \in DOMAIN cubes.current.time}

\* C2: in mean mode, estimate_coefficients_for_ngr called with a distribution
\* name other than the two supported ones raises the KeyError "Distribution
\* requested ... is not supported" naming the requested distribution and
\* returns no coefficient set, whatever the historic forecast and truth are
\* (a truth without valid points included).
C2_UnknownDistributionRaises ==
    (/\ EstimatorCalled
     /\ Lower(ec.flag) = MeanFlag
     /\ Lower(ec.distribution) \notin {GaussianName, TruncatedGaussianName})
    => /\ ret.kind = "raise"
       /\ ret.err = "KeyError"
       /\ ret.msg = DistributionMsg
       /\ ret.names = Lower(ec.distribution)

ExpectedLength ==
    IF Lower(ec.flag) = MeanFlag THEN 4 ELSE 3 + NumRealizations(cubes.historic)

C7_OneEntryPerDate ==
    (EstimatorCalled /\ ret.kind = "return")
    => DOMAIN ret.value = CurrentForecastDates

-----------------------------------------------------------------------------
(* Claims about EnsembleCalibration.process, under SpecProc *)

ProcessCalled == log # <<>>

LastCall == log[1]

\* The calibration-method name of the last call, lower-cased and with
\* spaces for underscores
NormalisedMethod == ReplaceUnderscores(Lower(LastCall.plugin.calibration_method))

NormalisedDistribution == ReplaceUnderscores(Lower(LastCall.plugin.distribution))

MethodRejected ==
    /\ LastCall.ret.kind = "raise"
    /\ LastCall.ret.err = "ValueError"
    /\ LastCall.ret.msg = OtherMethodsMsg

\* C3: process with a valid predictor flag, a supported calibration method
\* and a distribution that is neither gaussian nor truncated gaussian raises
\* a configuration error (ValueError or KeyError) naming the distribution,
\* and constructs no Applier.
C3_UnknownDistributionConfigError ==
    (/\ ProcessCalled
     /\ ValidPredictorOfMeanFlag(LastCall.plugin.flag)
     /\ NormalisedMethod \in {EmosName, NgrName}
     /\ NormalisedDistribution \notin {GaussianName, TruncatedGaussianName})
    => /\ LastCall.ret.kind = "raise"
       /\ LastCall.ret.err \in {"ValueError", "KeyError"}
       /\ LastCall.ret.names \in {LastCall.plugin.distribution,
                                  Lower(LastCall.plugin.distribution),
                                  NormalisedDistribution}
       /\ LastCall.ac = None

\* What the three sentences of C4 say of the last call
MethodAliasesRule ==
    /\ MethodRejected <=> NormalisedMethod \notin {EmosName, NgrName}
    /\ MethodRejected =>
          /\ LastCall.ret.names = NormalisedMethod
          /\ LastCall.ec = None
          /\ LastCall.ac = None
          /\ cubes = LastCall.cubes
    /\ ~MethodRejected =>
          \A alias \in {EmosName, NgrName} :
              process([LastCall.plugin EXCEPT !.calibration_method = alias],
                      LastCall.cubes, LastCall.orc) = LastCall.ret

\* C4: process rejects a calibration-method name with the ValueError "Other
\* calibration methods are not available" exactly when the name, lower-cased
\* and with spaces for underscores, is neither "ensemble model output
\* statistics" nor "nonhomogeneous gaussian regression"; the rejection names
\* the method and comes before the Estimator exists or a cube is converted;
\* an accepted name gives what either alias gives on the same cubes.
C4_MethodAliases == ProcessCalled => MethodAliasesRule

\* C4 as it holds: the same, for a valid predictor_of_mean_flag (the flag is
\* checked before the method, line 1014).
C4_MethodAliasesValidFlag ==
    (ProcessCalled /\ ValidPredictorOfMeanFlag(LastCall.plugin.flag))
    => MethodAliasesRule

\* An alias written with capitals and underscores went through estimation
\* and application.
C4_Witness ==
    /\ ProcessCalled
    /\ LastCall.plugin.calibration_method = EmosCapitalsUnderscores
    /\ LastCall.ret.kind = "return"
    /\ LastCall.ec # None
    /\ LastCall.ac # None

-----------------------------------------------------------------------------
(* Further claims about estimate_coefficients_for_ngr, under SpecEst; the
   call and what it met are in log. *)

\* The vectors of the returned dictionary hold no NaN: they came from the
\* optimiser (a NaN guess is never handed to it, and its result is finite).
ReturnedFromOptimiser ==
    /\ ret.kind = "return"
    /\ \A d \in DOMAIN ret.value : ~AnyNaN(ret.value[d])

\* The outcome of the logged call with the optimiser reporting success
ConvergedOutcome ==
    estimate_coefficients_for_ngr(
        LastCall.ec, LastCall.cubes,
        [LastCall.orc EXCEPT !.opt = [@ EXCEPT !.success = TRUE]])

HasWarning(outcome, w) == \E k \in DOMAIN outcome.warnings : outcome.warnings[k] = w

\* C11: when the optimiser does not report success, the call raises only
\* what it raises with a successful optimiser (before the optimiser runs);
\* when the optimiser ran, the call returns the same dictionary as with a
\* successful optimiser, the entry of the date included, and the warning
\* "Minimisation did not result in convergence" is emitted.
C11_NonConvergenceWarnsAndReturns ==
    (EstimatorCalled /\ ~LastCall.orc.opt.success)
    => /\ ret.kind = ConvergedOutcome.kind
       /\ ret.kind = "raise" => ret = ConvergedOutcome
       /\ ReturnedFromOptimiser =>
             /\ ret.value = ConvergedOutcome.value
             /\ DOMAIN ret.value # {}
             /\ HasWarning(ret, NotConvergedMsg)
             /\ ~HasWarning(ConvergedOutcome, NotConvergedMsg)

C11_Witness ==
    /\ EstimatorCalled
    /\ ~LastCall.orc.opt.success
    /\ ReturnedFromOptimiser
    /\ HasWarning(ret, NotConvergedMsg)

\* C12: after estimate_coefficients_for_ngr returns, the caller's historic
\* forecast, truth and current forecast have the data and the units they
\* had before the call.
C12_InputsUnchanged ==
    (EstimatorCalled /\ ret.kind = "return") => cubes = LastCall.cubes

\* The cubes of the logged call, supplied in desired_units
SuppliedInDesiredUnits ==
    [LastCall.cubes EXCEPT
        !.historic = ConvertUnits(@, LastCall.ec.desired_units),
        !.truth = ConvertTruthUnits(@, LastCall.ec.desired_units)]

\* C13: the call gives what it gives when the historic forecast and the
\* truth are supplied in desired_units (same quantities, same optimiser).
C13_UnitInvariance ==
    EstimatorCalled
    => ret = estimate_coefficients_for_ngr(LastCall.ec, SuppliedInDesiredUnits,
                                           LastCall.orc)

\* Coefficients were returned for a historic forecast and a truth that both
\* came in another unit and whose data the conversion changed.
C13_Witness ==
    /\ EstimatorCalled
    /\ ReturnedFromOptimiser
    /\ LastCall.cubes.historic.units # ec.desired_units
    /\ LastCall.cubes.truth.units # ec.desired_units
    /\ LastCall.cubes.historic.data # cubes.historic.data
    /\ LastCall.cubes.truth.data # cubes.truth.data

\* Current forecasts with the time coordinate of c and other data or other
\* units
OtherCurrentForecasts(c) ==
    {[c EXCEPT !.data = [r \in DOMAIN c.data |-> [p \in DOMAIN c.data[r] |-> NaN]]],
     [c EXCEPT !.units = KilometresPerHour]}

\* C14: the call gives the same outcome, the same vector under the same
\* date, for every current forecast that differs from the one given only
\* in data or units.
C14_CurrentForecastDataIrrelevant ==
    EstimatorCalled
    => \A c \in OtherCurrentForecasts(LastCall.cubes.current) :
          estimate_coefficients_for_ngr(
              LastCall.ec, [LastCall.cubes EXCEPT !.current = c], LastCall.orc) = ret

C14_Witness ==
    /\ EstimatorCalled
    /\ ReturnedFromOptimiser
    /\ DOMAIN ret.value = {LastCall.cubes.current.time[1]}
    /\ LastCall.cubes.current.units = MetresPerSecond
    /\ \E r \in DOMAIN LastCall.cubes.current.data :
          ~IsZero(LastCall.cubes.current.data[r][1])

\* C19: a coefficient vector of the returned dictionary never holds a NaN
\* copied from the initial guess: every vector came from the minimiser.
C19_StoredVectorMinimised ==
    (EstimatorCalled /\ ret.kind = "return") => ReturnedFromOptimiser

\* C20: when the current forecast has a second date and the vector of the
\* first date holds no NaN, the second date has its own vector, minimised
\* from the vector of the first (so of its length).
C20_SeedReuse ==
    (/\ EstimatorCalled
     /\ ReturnedFromOptimiser
     /\ Len(LastCall.cubes.current.time) >= 2)
    => /\ LastCall.cubes.current.time[2] \in DOMAIN ret.value
       /\ Len(ret.value[LastCall.cubes.current.time[2]])
            = Len(ret.value[LastCall.cubes.current.time[1]])

-----------------------------------------------------------------------------
(* Claims about the constructor, compute_initial_guess and
   create_coefficients_cube, under SpecHelp *)

GuessCalled == cubes.kind = "guess_args" /\ ret.kind \in {"return", "raise"}

RegressionRequested == ec.ESTIMATE_COEFFICIENTS_FROM_LINEAR_MODEL_FLAG

\* The points where truth and predictor are both numbers
ValidPairs ==
    {p \in GuessPoints :
        ~IsNaN(cubes.truth_data[p]) /\ ~IsNaN(cubes.predictor_data[1][p])}

\* Two valid points differ in the predictor: the least-squares line is unique
UniqueFit ==
    \E p, q \in ValidPairs : cubes.predictor_data[1][p] # cubes.predictor_data[1][q]

\* intercept a and slope b solve the normal equations over the valid pairs:
\* n a + b sum(x) = sum(y) and a sum(x) + b sum(x^2) = sum(x y)
SolvesNormalEquations(a, b) ==
    LET x == cubes.predictor_data[1]
        y == cubes.truth_data
        sx == SumOver(ValidPairs, x)
        sy == SumOver(ValidPairs, y)
        sxx == SumOver(ValidPairs, [p \in GuessPoints |-> FMul(x[p], x[p])])
        sxy == SumOver(ValidPairs, [p \in GuessPoints |-> FMul(x[p], y[p])])
    IN  /\ FAdd(FMul(Num(Cardinality(ValidPairs)), a), FMul(b, sx)) = sy
        /\ FAdd(FMul(a, sx), FMul(b, sxx)) = sxy

\* C15: in mean mode with regression, compute_initial_guess returns
\* [1, 1, intercept, slope]: both NaN when no point has truth and predictor,
\* and the least-squares line through the valid pairs alone when they fix one.
C15_RegressionGuessIsLeastSquares ==
    (GuessCalled /\ Lower(ec.flag) = MeanFlag /\ RegressionRequested)
    => /\ ret.kind = "return"
       /\ Len(ret.x) = 4
       /\ ret.x[1] = Num(1)
       /\ ret.x[2] = Num(1)
       /\ ValidPairs = {} => IsNaN(ret.x[3]) /\ IsNaN(ret.x[4])
       /\ UniqueFit =>
             /\ IsFinite(ret.x[3])
             /\ IsFinite(ret.x[4])
             /\ SolvesNormalEquations(ret.x[3], ret.x[4])

\* A fit through two valid pairs beside a point whose predictor is NaN, with
\* a slope that is not zero.
C15_Witness ==
    /\ GuessCalled
    /\ Lower(ec.flag) = MeanFlag
    /\ RegressionRequested
    /\ Cardinality(ValidPairs) = 2
    /\ \E p \in GuessPoints :
          IsNaN(cubes.predictor_data[1][p]) /\ ~IsNaN(cubes.truth_data[p])
    /\ UniqueFit
    /\ ret.kind = "return"
    /\ IsFinite(ret.x[4])
    /\ ~IsZero(ret.x[4])

OnesAfterThree(R) == <<Num(1), Num(1), Num(0)>> \o [k \in 1..R |-> Num(1)]

\* C16: without statsmodels the constructor emits exactly one warning in
\* realizations mode and none in mean mode, and compute_initial_guess in
\* realizations mode with regression requested returns [1, 1, 0] and R ones.
C16_NoStatsmodelsFallsBack ==
    (ec.kind = "estimator" /\ ~ec.statsmodels_found)
    => /\ (ret.kind = "constructed" /\ Lower(ec.flag) = RealizationsFlag)
            => ret.warnings = <<ImportWarningMsg>>
       /\ (ret.kind = "constructed" /\ Lower(ec.flag) = MeanFlag)
            => ret.warnings = <<>>
       /\ (GuessCalled /\ Lower(ec.flag) = RealizationsFlag /\ RegressionRequested)
            => /\ ret.kind = "return"
               /\ ret.x = OnesAfterThree(Len(cubes.predictor_data))

C16_Witness ==
    /\ GuessCalled
    /\ ~ec.statsmodels_found
    /\ Lower(ec.flag) = RealizationsFlag
    /\ RegressionRequested
    /\ ret.kind = "return"
    /\ Len(ret.x) = 5

\* C17: with regression disabled compute_initial_guess returns [1, 1, 0, 1]
\* in mean mode and [1, 1, 0] followed by R ones in realizations mode,
\* whatever the truth and the predictor hold.
C17_DefaultGuess ==
    (GuessCalled /\ ~RegressionRequested)
    => /\ Lower(ec.flag) = MeanFlag
            => ret.kind = "return" /\ ret.x = <<Num(1), Num(1), Num(0), Num(1)>>
       /\ Lower(ec.flag) = RealizationsFlag
            => /\ ret.kind = "return"
               /\ ret.x = OnesAfterThree(Len(cubes.predictor_data))

\* The default of two realizations over data with a NaN
C17_Witness ==
    /\ GuessCalled
    /\ ~RegressionRequested
    /\ Lower(ec.flag) = RealizationsFlag
    /\ \E p \in GuessPoints : IsNaN(cubes.truth_data[p])
    /\ ret.kind = "return"
    /\ ret.x = <<Num(1), Num(1), Num(0), Num(1), Num(1)>>

CoefficientsCalled == cubes.kind = "coefficient_args" /\ ret.kind \in {"return", "raise"}

\* gamma, delta, alpha, beta, or beta<r> for the realization numbers of the
\* current forecast in coordinate order
StatedCoefficientNames ==
    IF Lower(ec.flag) = MeanFlag
    THEN <<GammaName, DeltaName, AlphaName, BetaName>>
    ELSE <<GammaName, DeltaName, AlphaName>> \o
         [r \in DOMAIN cubes.current_forecast.realization |->
             BetaName \o FormatInt(cubes.current_forecast.realization[r])]

\* C18: for a valid flag create_coefficients_cube raises the ValueError "The
\* number of coefficients in ..." exactly when the number of coefficients
\* differs from the number of names; otherwise the cube holds the i-th
\* coefficient with index i (from 0) and the i-th name.
C18_CoefficientCube ==
    (CoefficientsCalled /\ ValidPredictorOfMeanFlag(ec.flag))
    => /\ (ret.kind = "raise" /\ ret.err = "ValueError" /\ ret.msg = CoefficientsMsg)
            <=> Len(cubes.optimised_coeffs) # Len(StatedCoefficientNames)
       /\ ret.kind = "return"
            => /\ ret.coefficient_name = StatedCoefficientNames
               /\ DOMAIN ret.data = DOMAIN StatedCoefficientNames
               /\ \A k \in DOMAIN ret.data :
                     /\ ret.data[k] = cubes.optimised_coeffs[k]
                     /\ ret.coefficient_index[k] = k - 1

\* beta2 and beta1 named for the realizations 2 and 1
C18_Witness ==
    /\ CoefficientsCalled
    /\ Lower(ec.flag) = RealizationsFlag
    /\ cubes.current_forecast.realization = <<2, 1>>
    /\ ret.kind = "return"
    /\ Len(ret.coefficient_name) = 5


-----------------------------------------------------------------------------
\* The Applier that process would construct had the current forecast been
\* converted to desired_units beforehand.
ApplierInDesiredUnits ==
    [LastCall.ac EXCEPT
        !.calls = 0,
        !.coeff_names = DefaultCoeffNames,
        !.current_forecast =
            ConvertUnits(LastCall.cubes.current, LastCall.plugin.desired_units)]

\* C21: process applies the coefficients to a current forecast expressed in
\* desired_units, whatever unit it was supplied in: the forecast the Applier
\* holds is in desired_units, and what process returns is what the Applier
\* computes from the converted current forecast.
C21_CurrentForecastConverted ==
    (ProcessCalled /\ LastCall.ac # None)
    => /\ LastCall.ac.current_forecast.units = LastCall.plugin.desired_units
       /\ LastCall.ret.kind = "return" =>
             /\ apply_params_entry(ApplierInDesiredUnits).kind = "return"
             /\ LastCall.ret.predictor = apply_params_entry(ApplierInDesiredUnits).predictor
             /\ LastCall.ret.variance = apply_params_entry(ApplierInDesiredUnits).variance


-----------------------------------------------------------------------------
\* C22: apply_params_entry is repeatable: a call leaves the Applier's
\* coefficient names as they were, and a call that follows a successful call
\* on the same object returns what that call returned.
C22_Repeatable ==
    [][ac.kind = "applier" =>
         /\ ac'.coeff_names = ac.coeff_names
         /\ (ac.calls > 0 /\ ret.kind = "return") => ret' = ret]_vars


-----------------------------------------------------------------------------
\* The controller's tests of lines 1014-1020 let the last call through.
ControllerAccepted ==
    /\ ProcessCalled
    /\ ValidPredictorOfMeanFlag(LastCall.plugin.flag)
    /\ NormalisedMethod \in {EmosName, NgrName}
    /\ NormalisedDistribution \in {GaussianName, TruncatedGaussianName}

\* C23: a distribution name the controller accepts is resolved to an
\* objective function: process does not fail on the distribution name
\* after the controller's check.
C23_AcceptedDistributionResolved ==
    ControllerAccepted
    => ~(/\ LastCall.ret.kind = "raise"
         /\ LastCall.ret.err = "KeyError"
         /\ LastCall.ret.msg = DistributionMsg)

-----------------------------------------------------------------------------
\* The call failed on its configuration: the predictor flag or the
\* distribution.
ConfigurationErrorRaised ==
    /\ ret.kind = "raise"
    /\ \/ ret.err = "ValueError" /\ ret.msg = "predictor_of_mean_flag"
       \/ ret.err = "KeyError" /\ ret.msg = DistributionMsg

\* C24: when estimate_coefficients_for_ngr fails on an invalid predictor
\* flag or an unknown distribution, the caller's historic forecast and truth
\* are as they were before the call.
C24_ConfigurationErrorLeavesInputs ==
    (EstimatorCalled /\ ConfigurationErrorRaised) => cubes = LastCall.cubes


-----------------------------------------------------------------------------
(* Claims about the sums of the objective functions, under SpecCrps *)

\* The term of grid point p in the sum of the called objective function
CrpsCallTerm(p) ==
    IF crps.fn = "normal"
    THEN NormalTerm(CrpsCallMu[p], CrpsCallSigmaSquared[p], crps.args.truth[p])
    ELSE TruncatedTerm(CrpsCallMu[p], CrpsCallSigmaSquared[p], crps.args.truth[p])

\* The terms of the grid points in Keep, in grid order
CrpsCallTermsOf(Keep) ==
    LET all == [p \in GridPoints |-> [p |-> p, term |-> CrpsCallTerm(p)]]
        kept == SelectSeq(all, LAMBDA e : e.p \in Keep)
    IN  [k \in DOMAIN kept |-> kept[k].term]

\* A grid point with a NaN among its inputs
NanTruthAt(p) == IsNaN(crps.args.truth[p])
NanInputAt(p) ==
    \/ NanTruthAt(p)
    \/ AnyNaN(crps.args.forecast_predictor[p])
    \/ IsNaN(crps.args.forecast_var[p])

\* mu / sigma at p is finite and not below -3
RegularAt(p) ==
    IsFinite(CrpsCallMuOverSigma[p]) /\ ~FLess(CrpsCallMuOverSigma[p], Num(-9))

\* C28 (as claimed): a grid point with a NaN truth, NaN predictor or NaN
\* variance contributes nothing: when the other grid points are regular the
\* returned loss is the sum of the terms of those other grid points.
C28_NanPointsContributeNothing ==
    (/\ crps.kind = "call"
     /\ crps.result.kind = "loss"
     /\ \E p \in GridPoints : NanInputAt(p)
     /\ \A p \in GridPoints : ~NanInputAt(p) => RegularAt(p))
    => crps.result = NanSumOf(CrpsCallTermsOf({p \in GridPoints : ~NanInputAt(p)}))

\* C28 as it holds: when mu / sigma is regular at every grid point, the
\* returned loss is the sum of the terms of the grid points whose truth is
\* not NaN, and none of the summed terms is NaN; a NaN predictor or NaN
\* variance at a grid point makes mu / sigma NaN there and the function
\* returns the sentinel.
C28_NanTermsSkippedWhenRegular ==
    (crps.kind = "call" /\ crps.result.kind = "loss")
    => /\ (\A p \in GridPoints : RegularAt(p))
          => /\ crps.result.sentinel = 0
             /\ crps.result.terms =
                    CrpsCallTermsOf({p \in GridPoints : ~NanTruthAt(p)})
             /\ \A k \in DOMAIN crps.result.terms : crps.result.terms[k].t = "val"
       /\ (\E p \in GridPoints :
              AnyNaN(crps.args.forecast_predictor[p]) \/ IsNaN(crps.args.forecast_var[p]))
          => crps.result = Sentinel

\* A call of either function with a NaN truth at one point and regular
\* mu / sigma everywhere returned the term of the other point alone.
C28_Witness ==
    /\ crps.kind = "call"
    /\ crps.result.kind = "loss"
    /\ \A p \in GridPoints : RegularAt(p)
    /\ \E p \in GridPoints : NanTruthAt(p)
    /\ Len(crps.result.terms) = 1
    /\ crps.result.terms[1].t = "val"


-----------------------------------------------------------------------------
\* The calibrated mean as C27 states it, for the coefficient vector x and
\* the predictor of the call: alpha + beta * mean in mean mode,
\* alpha + sum over r of beta_r^2 * realization_r in realizations mode.
StatedMu(x) ==
    [p \in GridPoints |->
        IF crps.args.flag = MeanFlag
        THEN FAdd(x[3], FMul(x[4], crps.args.forecast_predictor[p][1]))
        ELSE FAdd(x[3],
                  SumSeq([r \in 1..(Len(x) - 3) |->
                             FMul(FMul(x[3 + r], x[3 + r]),
                                  crps.args.forecast_predictor[p][r])]))]

\* The terms that the called objective function sums when the mean is mu
StatedTerms(mu) ==
    SelectSeq([p \in GridPoints |->
                  IF crps.fn = "normal"
                  THEN NormalTerm(mu[p], CrpsCallSigmaSquared[p], crps.args.truth[p])
                  ELSE TruncatedTerm(mu[p], CrpsCallSigmaSquared[p], crps.args.truth[p])],
              LAMBDA t : t.t # "nan")

\* The coefficient vectors that differ from x in the sign of some betas
NegatedBetas(x) ==
    {[k \in DOMAIN x |-> IF k \in S THEN FNeg(x[k]) ELSE x[k]] : S \in SUBSET (4..Len(x))}

\* The called objective function at another coefficient vector
CrpsCallAt(x) ==
    IF crps.fn = "normal"
    THEN normal_crps_minimiser(x, crps.args.forecast_predictor, crps.args.truth,
                               crps.args.forecast_var, crps.args.flag)
    ELSE truncated_normal_crps_minimiser(x, crps.args.forecast_predictor, crps.args.truth,
                                         crps.args.forecast_var, crps.args.flag)

\* The Applier's calibrated predictor for the coefficient vector x and a
\* current forecast that holds the predictor of the call
AppliedAt(x) ==
    apply_params_entry(
        Applier(Cube([r \in DOMAIN crps.args.forecast_predictor[1] |->
                         [p \in GridPoints |-> crps.args.forecast_predictor[p][r]]],
                     [r \in DOMAIN crps.args.forecast_predictor[1] |-> r - 1],
                     <<1>>, "K"),
                <<x>>, DefaultCoeffNames, crps.args.flag))

\* C27: the Gaussian objective, the truncated Gaussian objective and the
\* Applier use the same mean: alpha + sum of beta_r^2 * realization_r in
\* realizations mode, where the sign of a beta_r changes neither the loss
\* nor the calibrated mean, and alpha + beta * mean, with beta unsquared,
\* in mean mode; alpha is never squared.
C27_BetaSquaredInRealizationsOnly ==
    (crps.kind = "call" /\ crps.result.kind = "loss")
    => LET applied == AppliedAt(crps.args.initial_guess)
       IN  /\ crps.result.sentinel = 0 =>
                  crps.result.terms = StatedTerms(StatedMu(crps.args.initial_guess))
           /\ applied.kind = "return"
           /\ applied.predictor =
                  Reshape(StatedMu(crps.args.initial_guess), GridShape.ylen, GridShape.xlen)
           /\ crps.args.flag = RealizationsFlag =>
                  \A y \in NegatedBetas(crps.args.initial_guess) \ {crps.args.initial_guess} :
                      /\ CrpsCallAt(y) = crps.result
                      /\ AppliedAt(y).predictor = applied.predictor

\* A realizations-mode call with a negative beta, a negative alpha and a
\* realization that is not zero returned a sum of terms.
C27_Witness ==
    /\ crps.kind = "call"
    /\ crps.args.flag = RealizationsFlag
    /\ crps.args.initial_guess[3].n < 0
    /\ crps.args.initial_guess[4].n < 0
    /\ crps.result.kind = "loss"
    /\ crps.result.sentinel = 0
    /\ \E k \in DOMAIN crps.result.terms : crps.result.terms[k].t = "val"
    /\ \E p \in GridPoints :
          IsFinite(crps.args.forecast_predictor[p][1])
          /\ crps.args.forecast_predictor[p][1].n > 0


-----------------------------------------------------------------------------
\* C30: the Estimator's own list of coefficient names is gamma, delta,
\* alpha, beta after every sequence of create_coefficients_cube and
\* estimate_coefficients_for_ngr calls, in both predictor modes.
C30_EstimatorNamesKept ==
    (ec.kind = "estimator" /\ cubes.kind \in {"coefficient_args", "method_args"})
    => ec.coeff_names = <<GammaName, DeltaName, AlphaName, BetaName>>

\* In realizations mode estimate_coefficients_for_ngr returned and then
\* create_coefficients_cube returned a cube that names beta0 and beta1.
C30_Witness ==
    /\ ec.kind = "estimator"
    /\ cubes.kind = "method_args"
    /\ Lower(ec.flag) = RealizationsFlag
    /\ log = <<"estimate_coefficients_for_ngr", "create_coefficients_cube">>
    /\ ret.kind = "return"
    /\ ret.coefficient_name =
           <<GammaName, DeltaName, AlphaName, BetaName \o <<"0">>, BetaName \o <<"1">>>>


-----------------------------------------------------------------------------
(* Claims about the minimisation, under SpecWrap and SpecWrapFair *)

MinimizeStarted == crps.kind \in {"minimizing", "returned"}

\* C29: every minimisation terminates: minimize counts at most 200
\* iterations and keeps at most one vector per iteration beside the initial
\* one, and a call that started minimising returns (or raises).
C29_MinimisationTerminates ==
    /\ [](MinimizeStarted => (crps.iterations <= 200 /\ crps.nvecs <= 1 + crps.iterations))
    /\ (crps.kind = "minimizing") ~> (crps.kind = "returned" /\ ret # None)

\* The loop ran into the iteration limit and the wrapper returned with the
\* warning that the minimisation did not converge.
C29_Witness ==
    /\ crps.kind = "returned"
    /\ crps.status = "maxiter"
    /\ crps.iterations = 200
    /\ ret.kind = "return"
    /\ HasWarning(ret, NotConvergedMsg)


\* C25: the diagnostics after the run never abort the caller: whatever
\* sequence of iterates minimize retained, the wrapper returns the final
\* point.
C25_DiagnosticsNeverAbort ==
    crps.kind = "returned" => (ret.kind = "return" /\ ret.x = crps.last)

\* The change of coefficient k between the last two iterates, as a
\* percentage of the penultimate value
StatedPercentageChange(k) ==
    FMul(FDiv(FAbs(FSub(crps.last[k], crps.prev[k])), FAbs(crps.prev[k])), Num(100))

\* C26: the wrapper warns of the percentage change exactly when the change
\* of some coefficient exceeds 5 (not at 5 itself), whether minimize
\* reported success or not, and returns the final point either way.
C26_PercentageChangeWarning ==
    (crps.kind = "returned" /\ crps.nvecs >= 2)
    => /\ ret.kind = "return"
       /\ ret.x = crps.last
       /\ HasWarning(ret, PercentageChangeMsg)
            <=> \E k \in DOMAIN crps.last : FLess(Num(5), StatedPercentageChange(k))
       /\ HasWarning(ret, NotConvergedMsg) <=> crps.status # "converged"

\* alpha went from 20 to 21 in the last iteration, a change of exactly 5%,
\* minimize reported no success, and the wrapper did not warn of the change.
C26_Witness ==
    /\ crps.kind = "returned"
    /\ crps.prev[3] = Num(20)
    /\ crps.last[3] = Num(21)
    /\ crps.status = "maxfev"
    /\ ret.kind = "return"
    /\ ~HasWarning(ret, PercentageChangeMsg)

=============================================================================
